---- MODULE Spec2Model ----
(***************************************************************************)
(* Model of the contractor productivity tracker: the two storage backends  *)
(* (MemStorage, DatabaseStorage), the ranking / under-performer queries    *)
(* and the admin-gated HTTP routes.                                        *)
(*                                                                         *)
(* Units: hours are integers in tenths of an hour (1000 = 100 h), and      *)
(* productivity is an integer percentage.                                  *)
(***************************************************************************)
EXTENDS Integers, Sequences, FiniteSets, Bags, TLC

VARIABLES
    backend,            \* which IStorage implementation is constructed: "mem" | "db"
    contractors,        \* the contractor store: a set of contractor rows, one per id
    productivityData,   \* the productivity store, in insertion order: <<[key, val], ...>>
    now,                \* the wall clock read by new Date() / NOW()
    isAdmin,            \* req.session.isAdmin of every session
    response,           \* the answer to the last HTTP request
    lastOp,             \* the last IStorage call and how it ended
    result,             \* the value returned by the last query
    uploads,            \* the productivity uploads in flight (concurrent requests)
    loginAttempts,      \* the rate limiter's Map: per client IP, count and resetTime
    logins,             \* the bag of login requests awaiting passwordManager.verifyPassword
    fullWindows,        \* history: per IP, the last window that counted its full quota
    exportHook          \* one useExport instance: its state, its last render, its calls

clients == <<loginAttempts, logins, fullWindows, exportHook>>

vars == <<clients, backend, contractors, productivityData, now, isAdmin, response, lastOp,
          result, uploads>>

stores == <<contractors, productivityData>>

(***************************************************************************)
(* State kept outside the stores: the login rate limiter of routes.ts and  *)
(* the useExport hook of the client.  Time is counted in ticks of the      *)
(* clock `now`; the limiter's window is RateLimitWindow ticks long.        *)
(***************************************************************************)
Ips == {"ip1", "ip2"}
NoAttempts == [count |-> 0, resetTime |-> 0]        \* no entry in the Map
NoWindow == [resetTime |-> 0 - 1, cleared |-> FALSE]
IdleHook == [isExporting |-> FALSE, rendered |-> FALSE, calls |-> <<>>]

\* the server has just started and the page has just mounted
NoClients ==
    /\ loginAttempts = [ip \in Ips |-> NoAttempts]
    /\ logins = EmptyBag
    /\ fullWindows = [ip \in Ips |-> NoWindow]
    /\ exportHook = IdleHook

(***************************************************************************)
(* Bounds and input domains                                                *)
(***************************************************************************)
MaxRecords == 2         \* capacity of the productivity store in the model
MaxClock == 1           \* the clock runs 0..MaxClock
MaxBatch == 2           \* longest list handed to a bulk operation

ContractorIds == {1, 2}
\* month tokens are text: sequences of one-character strings
Aug25 == <<"A", "u", "g", "-", "2", "5">>
Sep25 == <<"S", "e", "p", "-", "2", "5">>
Months == {Aug25, Sep25}
Backends == {"mem", "db"}
Sessions == {"s1"}

FullTime == "Full Time"
PartTime == "Part Time"
ContractorTypes == {FullTime, PartTime, "Intern"}   \* contractorType is free text
Statuses == {"active", "archived"}

\* "not given": an optional field left out of an insert or a partial update
Keep == "<undefined>"
KeepNum == 0 - 1
KeepText == <<>>

NameOf(id) == IF id = 1 THEN "Ann" ELSE "Bob"

\* (productiveHours, totalHours, productivity) of the rows written in the model
Readings ==
    { [productiveHours |-> 0,    totalHours |-> 0,    productivity |-> 0],
      [productiveHours |-> 400,  totalHours |-> 500,  productivity |-> 80],
      [productiveHours |-> 600,  totalHours |-> 800,  productivity |-> 75],
      [productiveHours |-> 950,  totalHours |-> 1000, productivity |-> 95],
      [productiveHours |-> 950,  totalHours |-> 1200, productivity |-> 79],
      [productiveHours |-> 1000, totalHours |-> 1200, productivity |-> 83] }

\* InsertProductivityData
InsertItem(c, m, r) ==
    [contractorId |-> c, month |-> m, productiveHours |-> r.productiveHours,
     totalHours |-> r.totalHours, productivity |-> r.productivity]

\* ProductivityData: a stored row
Row(item, t) ==
    [contractorId |-> item.contractorId, month |-> item.month,
     productiveHours |-> item.productiveHours, totalHours |-> item.totalHours,
     productivity |-> item.productivity, createdAt |-> t]

\* `${contractorId}-${month}`: the Map key, and the column pair of the unique index
KeyOf(v) == <<v.contractorId, v.month>>

Entry(k, v) == [key |-> k, val |-> v]

(***************************************************************************)
(* Sequence helpers                                                        *)
(***************************************************************************)
Range(s) == { s[i] : i \in 1..Len(s) }

Vals(pd) == [ i \in 1..Len(pd) |-> pd[i].val ]

\* Array.prototype.filter
RECURSIVE FilterSeq(_, _)
FilterSeq(s, keep) ==
    IF s = <<>> THEN <<>>
    ELSE IF Head(s) \in keep THEN <<Head(s)>> \o FilterSeq(Tail(s), keep)
         ELSE FilterSeq(Tail(s), keep)

\* Array.prototype.slice(0, limit): a negative limit counts from the end
Slice0(s, limit) ==
    LET end == IF limit < 0 THEN (IF Len(s) + limit < 0 THEN 0 ELSE Len(s) + limit)
               ELSE (IF limit > Len(s) THEN Len(s) ELSE limit)
    IN  SubSeq(s, 1, end)

\* every arrangement of a finite set as a sequence
Perms(S) ==
    { p \in [1..Cardinality(S) -> S] : \A i, j \in 1..Cardinality(S) : i # j => p[i] # p[j] }

(***************************************************************************)
(* Contractor operations                                                   *)
(***************************************************************************)
HasContractor(cs, id) == \E c \in cs : c.id = id

\* getContractor
GetContractor(cs, id) == { c \in cs : c.id = id }

\* the defaults of an inserted contractor
NewContractor(c) ==
    [id |-> c.id, name |-> c.name,
     status |-> IF c.status = Keep THEN "active" ELSE c.status,
     contractorType |-> IF c.contractorType = Keep THEN FullTime ELSE c.contractorType]

\* MemStorage.createContractor: Map.set under the contractor's id
MemCreateContractor(cs, c) == { x \in cs : x.id # c.id } \cup { NewContractor(c) }

\* COALESCE(MAX(id), 0) + 1
DbNextId(cs) ==
    IF cs = {} THEN 1 ELSE (CHOOSE m \in { x.id : x \in cs } : \A x \in cs : x.id <= m) + 1

\* contractorToInsert: `!contractor.id` holds for a missing id and for 0
DbContractorToInsert(cs, c) ==
    IF c.id = KeepNum \/ c.id = 0 THEN [c EXCEPT !.id = DbNextId(cs)] ELSE c

\* DatabaseStorage.createContractor: INSERT; the primary key rejects a known id
DbCreateContractor(cs, c) ==
    IF HasContractor(cs, DbContractorToInsert(cs, c).id) THEN cs
    ELSE cs \cup { NewContractor(DbContractorToInsert(cs, c)) }

DbCreateContractorThrows(cs, c) == HasContractor(cs, DbContractorToInsert(cs, c).id)

\* { ...existing, ...patch }
MergeContractor(x, patch) ==
    [id |-> x.id,
     name |-> IF patch.name = Keep THEN x.name ELSE patch.name,
     status |-> IF patch.status = Keep THEN x.status ELSE patch.status,
     contractorType |-> IF patch.contractorType = Keep THEN x.contractorType
                        ELSE patch.contractorType]

\* updateContractor (both backends)
UpdateContractor(cs, id, patch) ==
    { IF x.id = id THEN MergeContractor(x, patch) ELSE x : x \in cs }

\* the archived copy of a contractor
Archived(x) == [x EXCEPT !.status = "archived"]

\* a hard delete in place of the soft delete
RemoveContractor(cs, id) == { x \in cs : x.id # id }

\* archiveContractor / deleteContractor (both backends)
ArchiveContractor(cs, id) == { IF x.id = id THEN Archived(x) ELSE x : x \in cs }

\* MemStorage.bulkCreateContractors: createContractor one by one
RECURSIVE MemBulkCreateContractors(_, _)
MemBulkCreateContractors(cs, data) ==
    IF data = <<>> THEN cs
    ELSE MemBulkCreateContractors(MemCreateContractor(cs, Head(data)), Tail(data))

\* DatabaseStorage.bulkCreateContractors: one INSERT of all rows, all or nothing
DbBulkCreateContractorsThrows(cs, data) ==
    \/ \E i \in 1..Len(data) : HasContractor(cs, data[i].id)
    \/ \E i, j \in 1..Len(data) : i # j /\ data[i].id = data[j].id

DbBulkCreateContractors(cs, data) ==
    IF DbBulkCreateContractorsThrows(cs, data) THEN cs
    ELSE cs \cup { NewContractor(data[i]) : i \in 1..Len(data) }

(***************************************************************************)
(* Productivity operations                                                 *)
(***************************************************************************)
HasKey(pd, k) == \E i \in 1..Len(pd) : pd[i].key = k

IndexOfKey(pd, k) == CHOOSE i \in 1..Len(pd) : pd[i].key = k

\* Map.set: replace in place, or append
MapSet(pd, k, v) ==
    IF HasKey(pd, k) THEN [pd EXCEPT ![IndexOfKey(pd, k)] = Entry(k, v)]
    ELSE Append(pd, Entry(k, v))

\* getProductivityDataByMonth (both backends)
GetProductivityDataByMonth(pd, month) ==
    FilterSeq(Vals(pd), { v \in Range(Vals(pd)) : v.month = month })

\* MemStorage.createProductivityData
MemCreateProductivityData(pd, item, t) == MapSet(pd, KeyOf(item), Row(item, t))

\* DatabaseStorage.createProductivityData: INSERT; the unique index rejects a known pair
DbCreateProductivityDataThrows(pd, item) == HasKey(pd, KeyOf(item))

DbCreateProductivityData(pd, item, t) ==
    IF DbCreateProductivityDataThrows(pd, item) THEN pd
    ELSE Append(pd, Entry(KeyOf(item), Row(item, t)))

\* { ...existing, ...data }
MergeRow(v, patch) ==
    [contractorId |-> IF patch.contractorId = KeepNum THEN v.contractorId
                      ELSE patch.contractorId,
     month |-> IF patch.month = KeepText THEN v.month ELSE patch.month,
     productiveHours |-> IF patch.productiveHours = KeepNum THEN v.productiveHours
                         ELSE patch.productiveHours,
     totalHours |-> IF patch.totalHours = KeepNum THEN v.totalHours ELSE patch.totalHours,
     productivity |-> IF patch.productivity = KeepNum THEN v.productivity
                      ELSE patch.productivity,
     createdAt |-> v.createdAt]

\* MemStorage.updateProductivityData: the merged row goes back under the looked-up key
MemUpdateProductivityData(pd, c, m, patch) ==
    IF HasKey(pd, <<c, m>>)
    THEN MapSet(pd, <<c, m>>, MergeRow(pd[IndexOfKey(pd, <<c, m>>)].val, patch))
    ELSE pd

\* DatabaseStorage.updateProductivityData: UPDATE ... WHERE contractor_id = c AND month = m;
\* the unique index rejects a row moved onto another row's pair
DbUpdateProductivityDataThrows(pd, c, m, patch) ==
    /\ HasKey(pd, <<c, m>>)
    /\ LET merged == MergeRow(pd[IndexOfKey(pd, <<c, m>>)].val, patch)
       IN  KeyOf(merged) # <<c, m>> /\ HasKey(pd, KeyOf(merged))

DbUpdateProductivityData(pd, c, m, patch) ==
    IF HasKey(pd, <<c, m>>) /\ ~DbUpdateProductivityDataThrows(pd, c, m, patch)
    THEN LET i == IndexOfKey(pd, <<c, m>>)
             merged == MergeRow(pd[i].val, patch)
         IN  [pd EXCEPT ![i] = Entry(KeyOf(merged), merged)]
    ELSE pd

\* deleteProductivityByMonth (both backends): every row whose month field matches
DeleteProductivityByMonth(pd, month) ==
    FilterSeq(pd, { e \in Range(pd) : e.val.month # month })

\* an update branch that overwrites the three measures and leaves createdAt as it was
UpsertedKeepsCreatedAt(existing, item, t) ==
    [existing EXCEPT !.productiveHours = item.productiveHours,
                     !.totalHours = item.totalHours,
                     !.productivity = item.productivity]

\* the update branch of the upsert: the three measures and the timestamp are overwritten
Upserted(existing, item, t) ==
    [existing EXCEPT !.productiveHours = item.productiveHours,
                     !.totalHours = item.totalHours,
                     !.productivity = item.productivity,
                     !.createdAt = t]

\* a loop turn that always stores a new record
MemUpsertAlwaysCreates(pd, item, t) == Append(pd, Entry(KeyOf(item), Row(item, t)))

\* one turn of the loop of MemStorage.bulkCreateProductivityData
MemUpsert(pd, item, t) ==
    IF HasKey(pd, KeyOf(item))
    THEN MapSet(pd, KeyOf(item), Upserted(pd[IndexOfKey(pd, KeyOf(item))].val, item, t))
    ELSE MemCreateProductivityData(pd, item, t)

\* one turn of the loop of DatabaseStorage.bulkCreateProductivityData:
\* INSERT ... ON CONFLICT (contractor_id, month) DO UPDATE
DbUpsert(pd, item, t) ==
    IF HasKey(pd, KeyOf(item))
    THEN LET i == IndexOfKey(pd, KeyOf(item))
         IN  [pd EXCEPT ![i] = Entry(pd[i].key, Upserted(pd[i].val, item, t))]
    ELSE Append(pd, Entry(KeyOf(item), Row(item, t)))

Upsert(b, pd, item, t) == IF b = "mem" THEN MemUpsert(pd, item, t) ELSE DbUpsert(pd, item, t)

\* bulkCreateProductivityData: the items in order, one upsert each
RECURSIVE BulkCreateProductivityData(_, _, _, _)
BulkCreateProductivityData(b, pd, data, t) ==
    IF data = <<>> THEN pd
    ELSE BulkCreateProductivityData(b, Upsert(b, pd, Head(data), t), Tail(data), t)

(***************************************************************************)
(* Rankings                                                                *)
(***************************************************************************)
\* contractors.find(c => c.id === data.contractorId)?.name || 'Unknown'
NameFor(cs, id) ==
    IF HasContractor(cs, id) THEN (CHOOSE c \in cs : c.id = id).name ELSE "Unknown"

\* MonthlyRanking
Ranking(cs, v, month, rank) ==
    [contractorId |-> v.contractorId, name |-> NameFor(cs, v.contractorId),
     hours |-> v.productiveHours, month |-> month, rank |-> rank]

\* .map((item, index) => ({ ...item, rank: index + 1 }))
Ranked(cs, rows, month) == [ i \in 1..Len(rows) |-> Ranking(cs, rows[i], month, i) ]

\* Array.prototype.sort with the comparator dir * (a.hours - b.hours): a stable sort,
\* rows of equal hours keep the order they came in
RECURSIVE InsertByHours(_, _, _)
InsertByHours(sorted, x, dir) ==
    IF sorted = <<>> THEN <<x>>
    ELSE IF dir * (Head(sorted).productiveHours - x.productiveHours) > 0
         THEN <<x>> \o sorted
         ELSE <<Head(sorted)>> \o InsertByHours(Tail(sorted), x, dir)

RECURSIVE SortByHours(_, _)
SortByHours(s, dir) ==
    IF s = <<>> THEN <<>>
    ELSE InsertByHours(SortByHours(SubSeq(s, 1, Len(s) - 1), dir), s[Len(s)], dir)

\* MemStorage.getMonthlyRankings: sort((a, b) => b.hours - a.hours)
MemGetMonthlyRankings(cs, pd, month) ==
    Ranked(cs, SortByHours(GetProductivityDataByMonth(pd, month), -1), month)

\* ORDER BY productive_hours DESC, productivity DESC
DescHoursDescProductivity(a, b) ==
    \/ a.productiveHours > b.productiveHours
    \/ a.productiveHours = b.productiveHours /\ a.productivity >= b.productivity

\* ORDER BY productive_hours ASC, productivity DESC
AscHoursDescProductivity(a, b) ==
    \/ a.productiveHours < b.productiveHours
    \/ a.productiveHours = b.productiveHours /\ a.productivity >= b.productivity

\* productivity_data INNER JOIN contractors ON contractors.id = contractor_id
\* WHERE month = :month
JoinedMonthRows(cs, pd, month) ==
    { v \in Range(Vals(pd)) : v.month = month /\ HasContractor(cs, v.contractorId) }

\* DatabaseStorage.getMonthlyRankings: every row order the ORDER BY allows
\* (rows equal in both sort columns come back in either order)
DbGetMonthlyRankings(cs, pd, month) ==
    { Ranked(cs, p, month) :
        p \in { q \in Perms(JoinedMonthRows(cs, pd, month)) :
                  \A i, j \in 1..Len(q) : i < j => DescHoursDescProductivity(q[i], q[j]) } }

\* getMonthlyRankings: the results the constructed backend may return
GetMonthlyRankings(b, cs, pd, month) ==
    IF b = "mem" THEN { MemGetMonthlyRankings(cs, pd, month) }
    ELSE DbGetMonthlyRankings(cs, pd, month)

\* getTopPerformers (both backends): rankings.slice(0, limit)
GetTopPerformers(b, cs, pd, month, limit) ==
    { Slice0(r, limit) : r \in GetMonthlyRankings(b, cs, pd, month) }

(***************************************************************************)
(* Thresholds and under-performers                                         *)
(***************************************************************************)
FullTimeMedium == 1000      \* 100 h
PartTimeMedium == 500       \* 50 h

\* MemStorage.getUnderPerformers: contractorType === 'Part Time' ? 50 : 100
MemHourThreshold(contractorType) ==
    IF contractorType = PartTime THEN PartTimeMedium ELSE FullTimeMedium

\* the filter without its "no hours yet" test
MemIsUnderPerformerNoFloor(cs, v) ==
    /\ HasContractor(cs, v.contractorId)
    /\ v.productiveHours
         < MemHourThreshold((CHOOSE c \in cs : c.id = v.contractorId).contractorType)

\* the filter of MemStorage.getUnderPerformers
MemIsUnderPerformer(cs, v) ==
    /\ HasContractor(cs, v.contractorId)
    /\ ~(v.productiveHours <= 0)
    /\ v.productiveHours
         < MemHourThreshold((CHOOSE c \in cs : c.id = v.contractorId).contractorType)

\* MemStorage.getUnderPerformers: sort((a, b) => a.hours - b.hours)
MemGetUnderPerformers(cs, pd, month) ==
    LET monthData == GetProductivityDataByMonth(pd, month)
        kept == FilterSeq(monthData, { v \in Range(monthData) : MemIsUnderPerformer(cs, v) })
    IN  Ranked(cs, SortByHours(kept, 1), month)

\* the WHERE clause of DatabaseStorage.getUnderPerformers on a joined row
DbIsUnderPerformer(c, v) ==
    /\ v.productiveHours > 0
    /\ \/ c.contractorType = FullTime /\ v.productiveHours < FullTimeMedium
       \/ c.contractorType = PartTime /\ v.productiveHours < PartTimeMedium

DbUnderPerformerRows(cs, pd, month) ==
    { v \in JoinedMonthRows(cs, pd, month) :
        DbIsUnderPerformer(CHOOSE c \in cs : c.id = v.contractorId, v) }

\* DatabaseStorage.getUnderPerformers: every row order the ORDER BY allows
DbGetUnderPerformers(cs, pd, month) ==
    { Ranked(cs, p, month) :
        p \in { q \in Perms(DbUnderPerformerRows(cs, pd, month)) :
                  \A i, j \in 1..Len(q) : i < j => AscHoursDescProductivity(q[i], q[j]) } }

GetUnderPerformers(b, cs, pd, month) ==
    IF b = "mem" THEN { MemGetUnderPerformers(cs, pd, month) }
    ELSE DbGetUnderPerformers(cs, pd, month)

(***************************************************************************)
(* Dashboard summary                                                       *)
(***************************************************************************)
CurrentMonth == Aug25

\* getThresholds(contractorType).medium of GET /api/dashboard/summary
DashboardMedium(contractorType) ==
    IF contractorType = PartTime THEN PartTimeMedium ELSE FullTimeMedium

\* contractor.productivityData.find(data => data.month === currentMonth)
MonthProductivity(pd, c) ==
    LET mine == FilterSeq(Vals(pd), { v \in Range(Vals(pd)) :
                                        v.contractorId = c.id /\ v.month = CurrentMonth })
    IN  IF mine = <<>> THEN <<>> ELSE <<Head(mine)>>

\* the contractors the summary keeps as under-performing
DashboardIsUnderPerformer(pd, c) ==
    /\ c.status = "active"
    /\ MonthProductivity(pd, c) # <<>>
    /\ ~(MonthProductivity(pd, c)[1].productiveHours <= 0)
    /\ MonthProductivity(pd, c)[1].productiveHours < DashboardMedium(c.contractorType)

\* the underPerformers field of the summary: the contractors come in the order
\* getContractorsWithData lists them, then a stable sort by hours ascending
DashboardUnderPerformers(cs, pd) ==
    LET under == { c \in cs : DashboardIsUnderPerformer(pd, c) }
    IN  { Ranked(cs, SortByHours([ i \in 1..Len(p) |-> MonthProductivity(pd, p[i])[1] ], 1),
                 CurrentMonth) : p \in Perms(under) }

(***************************************************************************)
(* Text as a sequence of one-character strings, and parseInt               *)
(***************************************************************************)
DigitValue(ch) ==
    CASE ch = "0" -> 0 [] ch = "1" -> 1 [] ch = "2" -> 2 [] ch = "3" -> 3 [] ch = "4" -> 4
      [] ch = "5" -> 5 [] ch = "6" -> 6 [] ch = "7" -> 7 [] ch = "8" -> 8 [] ch = "9" -> 9
      [] OTHER -> 0 - 1

IsDigit(ch) == DigitValue(ch) >= 0

NaN == [nan |-> TRUE, val |-> 0]
Num(n) == [nan |-> FALSE, val |-> n]

\* the leading run of digits of s, read as a number that continues acc
RECURSIVE DigitsPrefix(_, _)
DigitsPrefix(s, acc) ==
    IF s = <<>> \/ ~IsDigit(Head(s)) THEN acc
    ELSE DigitsPrefix(Tail(s), 10 * acc + DigitValue(Head(s)))

RECURSIVE TrimStart(_)
TrimStart(s) == IF s # <<>> /\ Head(s) = " " THEN TrimStart(Tail(s)) ELSE s

\* parseInt: leading blanks, an optional sign, then the leading digits; NaN without a digit
ParseInt(str) ==
    LET s == TrimStart(str)
        signed == s # <<>> /\ Head(s) \in {"-", "+"}
        body == IF signed THEN Tail(s) ELSE s
    IN  IF body = <<>> \/ ~IsDigit(Head(body)) THEN NaN
        ELSE Num((IF signed /\ Head(s) = "-" THEN 0 - 1 ELSE 1) * DigitsPrefix(body, 0))

(***************************************************************************)
(* Queries: the read-only calls and routes                                 *)
(***************************************************************************)
MaxLimit == 3           \* largest limit handed to getTopPerformers in the model

Limits == (0 - 1)..MaxLimit

\* req.query.limit of GET /api/top-performers/:month (<<>>: not supplied)
QueryLimits == { <<>>, <<"0">>, <<"1">>, <<"2">>, <<"-", "1">>, <<"x">> }

DefaultLimit == 3

\* parseInt(req.query.limit as string) || 3
RouteLimit(q) ==
    IF ParseInt(q).nan \/ ParseInt(q).val = 0 THEN DefaultLimit ELSE ParseInt(q).val

NoResult == [op |-> "none", month |-> <<>>, limit |-> 0, query |-> <<>>, value |-> <<>>]

Answer(op, month, limit, query, value) ==
    [op |-> op, month |-> month, limit |-> limit, query |-> query, value |-> value]

QueryFrame == UNCHANGED <<clients, backend, contractors, productivityData, now, isAdmin, response,
                          lastOp, uploads>>

\* storage.getMonthlyRankings(month), GET /api/rankings/:month
QueryMonthlyRankings(month) ==
    /\ \E r \in GetMonthlyRankings(backend, contractors, productivityData, month) :
          result' = Answer("getMonthlyRankings", month, 0, <<>>, r)
    /\ QueryFrame

\* storage.getTopPerformers(month, limit)
QueryTopPerformers(month, limit) ==
    /\ \E r \in GetTopPerformers(backend, contractors, productivityData, month, limit) :
          result' = Answer("getTopPerformers", month, limit, <<>>, r)
    /\ QueryFrame

\* GET /api/top-performers/:month?limit=q
TopPerformersRoute(month, q) ==
    /\ \E r \in GetTopPerformers(backend, contractors, productivityData, month, RouteLimit(q)) :
          result' = Answer("GET /api/top-performers", month, RouteLimit(q), q, r)
    /\ QueryFrame

\* storage.getUnderPerformers(month, 0), GET /api/under-performers/:month
QueryUnderPerformers(month) ==
    /\ \E r \in GetUnderPerformers(backend, contractors, productivityData, month) :
          result' = Answer("getUnderPerformers", month, 0, <<>>, r)
    /\ QueryFrame

\* GET /api/dashboard/summary: the underPerformers field
DashboardSummary ==
    /\ \E r \in DashboardUnderPerformers(contractors, productivityData) :
          result' = Answer("dashboard.underPerformers", CurrentMonth, 0, <<>>, r)
    /\ QueryFrame

\* the stores the queries are put to: rows filed under their own pair, one per pair
\* (the current month carries every reading, the other month one)
StoredRows ==
    { Row(InsertItem(c, CurrentMonth, r), 0) : c \in ContractorIds, r \in Readings }
    \cup { Row(InsertItem(c, m, r), 0) :
             c \in ContractorIds, m \in Months \ {CurrentMonth},
             r \in { x \in Readings : x.productiveHours = 600 } }

QueryStores ==
    UNION { { s \in [1..n -> { Entry(KeyOf(v), v) : v \in StoredRows }] :
                \A i, j \in 1..n : i # j => s[i].key # s[j].key } : n \in 0..MaxRecords }

\* contractor 2 is a Full Time active contractor; contractor 1 is any contractor, or none
QueryRosters ==
    LET two == [id |-> 2, name |-> NameOf(2), status |-> "active", contractorType |-> FullTime]
    IN  { {two} } \cup
        { { two, [id |-> 1, name |-> NameOf(1), status |-> st, contractorType |-> ty] } :
            st \in Statuses, ty \in ContractorTypes }

NoResponse ==
    [route |-> "none", status |-> 0, detail |-> "", processed |-> 0, errors |-> <<>>,
     expected |-> "", received |-> ""]
NoOp == [op |-> "none", outcome |-> ""]

InitQuery ==
    /\ NoClients
    /\ backend \in Backends
    /\ contractors \in QueryRosters
    /\ productivityData \in QueryStores
    /\ now = 0
    /\ isAdmin = [s \in Sessions |-> FALSE]
    /\ response = NoResponse
    /\ lastOp = NoOp
    /\ result = NoResult
    /\ uploads = <<>>

NextQuery ==
    \/ \E month \in Months : QueryMonthlyRankings(month)
    \/ \E month \in Months, limit \in Limits : QueryTopPerformers(month, limit)
    \/ \E month \in Months, q \in QueryLimits : TopPerformersRoute(month, q)
    \/ \E month \in Months : QueryUnderPerformers(month)
    \/ DashboardSummary

SpecQuery == InitQuery /\ [][NextQuery]_vars

(***************************************************************************)
(* Claims about the queries (checked under SpecQuery)                      *)
(***************************************************************************)
\* the stored rows of a month, and the row of a contractor in a month
MonthEntries(month) == { i \in 1..Len(productivityData) : productivityData[i].val.month = month }

StoredRow(c, month) ==
    productivityData[CHOOSE i \in MonthEntries(month) :
                        productivityData[i].val.contractorId = c].val

\* every stored row belongs to a stored contractor
NoOrphans ==
    \A i \in 1..Len(productivityData) :
        HasContractor(contractors, productivityData[i].val.contractorId)

RanksAreDense(v) == \A i \in 1..Len(v) : v[i].rank = i

ListsEachOnce(v, ids) ==
    /\ Len(v) = Cardinality(ids)
    /\ { v[i].contractorId : i \in 1..Len(v) } = ids

\* C7: getMonthlyRankings(month) returns one entry per stored record of the month, with
\* ranks 1..N each used once, in order of productiveHours descending and, among records
\* of equal hours, productivity descending.
C7_RankingOrder ==
    (result.op = "getMonthlyRankings" /\ NoOrphans) =>
        /\ ListsEachOnce(result.value,
                         { productivityData[i].val.contractorId : i \in MonthEntries(result.month) })
        /\ RanksAreDense(result.value)
        /\ \A i, j \in 1..Len(result.value) :
              i < j => DescHoursDescProductivity(
                           StoredRow(result.value[i].contractorId, result.month),
                           StoredRow(result.value[j].contractorId, result.month))

\* the medium threshold the claim names for a contractor type
ClaimedMedium(contractorType) == IF contractorType = PartTime THEN 500 ELSE 1000

ClaimedUnderPerformers(month) ==
    { productivityData[i].val.contractorId : i \in
        { k \in MonthEntries(month) :
            LET v == productivityData[k].val
            IN  /\ HasContractor(contractors, v.contractorId)
                /\ v.productiveHours > 0
                /\ v.productiveHours
                     < ClaimedMedium((CHOOSE c \in contractors : c.id = v.contractorId).contractorType) } }

\* C8: getUnderPerformers(month) returns exactly the month's records with hours strictly
\* above 0 and strictly below the medium threshold of the contractor's type (100 h Full
\* Time, 50 h Part Time), ordered by hours ascending then productivity descending, with
\* ranks 1..K within that subset.
C8_UnderPerformers ==
    ( /\ result.op = "getUnderPerformers"
      /\ NoOrphans
      /\ \A c \in contractors : c.contractorType \in {FullTime, PartTime} ) =>
        /\ ListsEachOnce(result.value, ClaimedUnderPerformers(result.month))
        /\ RanksAreDense(result.value)
        /\ \A i, j \in 1..Len(result.value) :
              i < j => AscHoursDescProductivity(
                           StoredRow(result.value[i].contractorId, result.month),
                           StoredRow(result.value[j].contractorId, result.month))

\* C9: no under-performer list (getUnderPerformers of either backend, the underPerformers
\* field of the dashboard summary) contains a record whose productiveHours is 0.
C9_NoZeroHoursUnderPerformer ==
    result.op \in {"getUnderPerformers", "dashboard.underPerformers"} =>
        \A i \in 1..Len(result.value) :
            /\ result.value[i].hours # 0
            /\ \E k \in MonthEntries(result.month) :
                  /\ productivityData[k].val.contractorId = result.value[i].contractorId
                  /\ productivityData[k].val.productiveHours # 0

\* C9 witness: an under-performer list was produced, non-empty, for a month in which a
\* stored contractor has a record of 0 hours.
C9_Witness ==
    /\ result.op \in {"getUnderPerformers", "dashboard.underPerformers"}
    /\ result.value # <<>>
    /\ \E k \in MonthEntries(result.month) :
          /\ productivityData[k].val.productiveHours = 0
          /\ \E c \in contractors : c.id = productivityData[k].val.contractorId
                                    /\ c.status = "active"

\* the first n entries of a list (all of them when it is shorter, none when n <= 0)
FirstN(r, n) == SubSeq(r, 1, IF n < 0 THEN 0 ELSE IF n > Len(r) THEN Len(r) ELSE n)

\* C10: getTopPerformers(month, limit) returns the first limit entries of
\* getMonthlyRankings(month), same order and ranks (all N when N is below limit), for
\* every caller-supplied limit; the route uses limit 3 when the caller supplies none.
C10_TopPerformers ==
    result.op \in {"getTopPerformers", "GET /api/top-performers"} =>
        /\ \E r \in GetMonthlyRankings(backend, contractors, productivityData, result.month) :
              result.value = FirstN(r, result.limit)
        /\ (result.op = "GET /api/top-performers" /\ result.query = <<>>)
              => result.limit = 3

(***************************************************************************)
(* The IStorage calls, made directly (SpecStorage)                         *)
(***************************************************************************)
Did(op, outcome) == [op |-> op, outcome |-> outcome]

\* InsertContractor values handed to createContractor / bulkCreateContractors
InsertContractors ==
    { [id |-> id, name |-> NameOf(id), status |-> f.status, contractorType |-> f.contractorType] :
        id \in ContractorIds,
        f \in { [status |-> Keep, contractorType |-> Keep],
                [status |-> "archived", contractorType |-> PartTime] } }

\* Partial<Contractor> values handed to updateContractor
ContractorPatches ==
    { [name |-> Keep, status |-> st, contractorType |-> Keep] : st \in Statuses }
    \cup { [name |-> Keep, status |-> Keep, contractorType |-> PartTime] }

\* the readings the direct storage calls write
StorageReadings == { r \in Readings : r.productivity \in {95, 79} }

StorageItems ==
    { InsertItem(c, m, r) : c \in ContractorIds, m \in Months, r \in StorageReadings }

\* Partial<ProductivityData> values handed to updateProductivityData
ProductivityPatches ==
    { [contractorId |-> c, month |-> m, productiveHours |-> r.productiveHours,
       totalHours |-> r.totalHours, productivity |-> r.productivity] :
        c \in {KeepNum, 2}, m \in {KeepText, Sep25},
        r \in { [productiveHours |-> KeepNum, totalHours |-> KeepNum, productivity |-> KeepNum],
                CHOOSE x \in StorageReadings : x.productivity = 79 } }

\* lists of at most MaxBatch elements
Batches(S) == UNION { [1..n -> S] : n \in 0..MaxBatch }

StorageFrame == UNCHANGED <<clients, backend, now, isAdmin, response, result, uploads>>

Fits(pd) == Len(pd) <= MaxRecords

\* storage.createContractor(c)
CreateContractorCall(c) ==
    /\ contractors' = IF backend = "mem" THEN MemCreateContractor(contractors, c)
                      ELSE DbCreateContractor(contractors, c)
    /\ lastOp' = Did("createContractor",
                     IF backend = "db" /\ DbCreateContractorThrows(contractors, c)
                     THEN "throws" ELSE "ok")
    /\ UNCHANGED productivityData
    /\ StorageFrame

\* storage.updateContractor(id, patch)
UpdateContractorCall(id, patch) ==
    /\ contractors' = UpdateContractor(contractors, id, patch)
    /\ lastOp' = Did("updateContractor",
                     IF HasContractor(contractors, id) THEN "ok" ELSE "undefined")
    /\ UNCHANGED productivityData
    /\ StorageFrame

\* storage.archiveContractor(id)
ArchiveContractorCall(id) ==
    /\ contractors' = ArchiveContractor(contractors, id)
    /\ lastOp' = Did("archiveContractor",
                     IF HasContractor(contractors, id) THEN "true" ELSE "false")
    /\ UNCHANGED productivityData
    /\ StorageFrame

\* storage.deleteContractor(id): archives as well
DeleteContractorCall(id) ==
    /\ contractors' = ArchiveContractor(contractors, id)
    /\ lastOp' = Did("deleteContractor",
                     IF HasContractor(contractors, id) THEN "true" ELSE "false")
    /\ UNCHANGED productivityData
    /\ StorageFrame

\* storage.bulkCreateContractors(data)
BulkCreateContractorsCall(data) ==
    /\ contractors' = IF backend = "mem" THEN MemBulkCreateContractors(contractors, data)
                      ELSE DbBulkCreateContractors(contractors, data)
    /\ lastOp' = Did("bulkCreateContractors",
                     IF backend = "db" /\ DbBulkCreateContractorsThrows(contractors, data)
                     THEN "throws" ELSE "ok")
    /\ UNCHANGED productivityData
    /\ StorageFrame

\* storage.createProductivityData(item)
CreateProductivityDataCall(item) ==
    /\ productivityData' = IF backend = "mem"
                           THEN MemCreateProductivityData(productivityData, item, now)
                           ELSE DbCreateProductivityData(productivityData, item, now)
    /\ Fits(productivityData')
    /\ lastOp' = Did("createProductivityData",
                     IF backend = "db" /\ DbCreateProductivityDataThrows(productivityData, item)
                     THEN "throws" ELSE "ok")
    /\ UNCHANGED contractors
    /\ StorageFrame

\* storage.updateProductivityData(contractorId, month, patch)
UpdateProductivityDataCall(c, m, patch) ==
    /\ productivityData' = IF backend = "mem"
                           THEN MemUpdateProductivityData(productivityData, c, m, patch)
                           ELSE DbUpdateProductivityData(productivityData, c, m, patch)
    /\ lastOp' = Did("updateProductivityData",
                     IF ~HasKey(productivityData, <<c, m>>) THEN "undefined"
                     ELSE IF backend = "db"
                             /\ DbUpdateProductivityDataThrows(productivityData, c, m, patch)
                          THEN "throws" ELSE "ok")
    /\ UNCHANGED contractors
    /\ StorageFrame

\* storage.deleteProductivityByMonth(month)
DeleteProductivityByMonthCall(month) ==
    /\ productivityData' = DeleteProductivityByMonth(productivityData, month)
    /\ lastOp' = Did("deleteProductivityByMonth",
                     IF productivityData' # productivityData THEN "true" ELSE "false")
    /\ UNCHANGED contractors
    /\ StorageFrame

\* storage.bulkCreateProductivityData(data)
BulkCreateProductivityDataCall(data) ==
    /\ productivityData' = BulkCreateProductivityData(backend, productivityData, data, now)
    /\ Fits(productivityData')
    /\ lastOp' = Did("bulkCreateProductivityData", "ok")
    /\ UNCHANGED contractors
    /\ StorageFrame

InitStorage ==
    /\ NoClients
    /\ backend \in Backends
    /\ contractors = {}
    /\ productivityData = <<>>
    /\ now = 0
    /\ isAdmin = [s \in Sessions |-> FALSE]
    /\ response = NoResponse
    /\ lastOp = NoOp
    /\ result = NoResult
    /\ uploads = <<>>

NextStorage ==
    \/ \E c \in InsertContractors : CreateContractorCall(c)
    \/ \E id \in ContractorIds, patch \in ContractorPatches : UpdateContractorCall(id, patch)
    \/ \E id \in ContractorIds : ArchiveContractorCall(id)
    \/ \E id \in ContractorIds : DeleteContractorCall(id)
    \/ \E data \in Batches(InsertContractors) : BulkCreateContractorsCall(data)
    \/ \E item \in StorageItems : CreateProductivityDataCall(item)
    \/ \E c \in ContractorIds, m \in Months, patch \in ProductivityPatches :
          UpdateProductivityDataCall(c, m, patch)
    \/ \E month \in Months : DeleteProductivityByMonthCall(month)
    \/ \E data \in Batches(StorageItems) : BulkCreateProductivityDataCall(data)

SpecStorage == InitStorage /\ [][NextStorage]_vars

\* C1: after any sequence of storage operations (createProductivityData,
\* bulkCreateProductivityData, updateProductivityData, deleteProductivityByMonth) the store
\* holds at most one productivity record for each (contractorId, month) pair.
C1_OneRecordPerPair ==
    \A i, j \in 1..Len(productivityData) :
        KeyOf(productivityData[i].val) = KeyOf(productivityData[j].val) => i = j

(***************************************************************************)
(* Uploaded files                                                          *)
(***************************************************************************)
\* a line of an uploaded file: blank, a header row, or a data row with its columns
Line(kind, header, cols, empNo, month, r) ==
    [kind |-> kind, header |-> header, cols |-> cols, empNo |-> empNo, month |-> month,
     productiveHours |-> r.productiveHours, totalHours |-> r.totalHours,
     productivity |-> r.productivity]

NoReading == [productiveHours |-> 0, totalHours |-> 0, productivity |-> 0]
ReadingA == CHOOSE r \in Readings : r.productivity = 95
ReadingB == CHOOSE r \in Readings : r.productivity = 79

BlankLine == Line("blank", "", 0, 0, <<>>, NoReading)
HeaderLine(h) == Line("header", h, 0, 0, <<>>, NoReading)
DataLine(c, m, r) == Line("data", "", 6, c, m, r)
ShortLine == Line("data", "", 5, 1, Aug25, ReadingA)
RosterLine(id) == Line("data", "", 9, id, <<>>, NoReading)
ShortRosterLine == Line("data", "", 8, 2, <<>>, NoReading)

ErrorCap == 10          \* errors.slice(0, 10)

\* the productivity CSVs uploaded in the model
CsvFiles ==
    LET h == HeaderLine("productivity")
        a == DataLine(1, Aug25, ReadingA)
        b == DataLine(1, Aug25, ReadingB)
        d == DataLine(2, Sep25, ReadingA)
        x == DataLine(9, Aug25, ReadingA)     \* an employee number not on the roster
    IN  { <<h, a>>, <<h, b>>, <<h, d>>, <<h, x>>, <<h, a, x>>, <<h, x, d>>,
          <<h, a, b>>, <<h, BlankLine, b>>, <<h, ShortLine, d>>, <<h>>,
          <<h, BlankLine, x>>, <<HeaderLine("other")>>,
          <<h>> \o [n \in 1..(ErrorCap + 1) |-> ShortLine],
          <<h, a>> \o [n \in 1..(ErrorCap + 1) |-> ShortLine],
          <<HeaderLine("roster"), RosterLine(2)>>, <<HeaderLine("other"), a>> }

\* the roster CSVs uploaded in the model
RosterFiles ==
    LET h == HeaderLine("roster")
    IN  { <<h, RosterLine(2)>>, <<h, RosterLine(1)>>, <<h, ShortRosterLine, RosterLine(2)>>,
          <<h, ShortRosterLine>>, <<h>>, <<HeaderLine("productivity"), RosterLine(2)>>,
          <<h>> \o [n \in 1..(ErrorCap + 1) |-> ShortRosterLine] }

\* csvContent.split('\n').filter(line => line.trim())
NonBlankLines(file) == FilterSeq(file, { l \in Range(file) : l.kind # "blank" })

\* headersMatch(headers, expected) on the header row
HeaderIs(line, h) == line.kind = "header" /\ line.header = h

(***************************************************************************)
(* The routes (Spec): every request handled as a whole                     *)
(***************************************************************************)
\* a guard that lets every session through
AdmitAll(s) == TRUE

\* requireAdmin
RequireAdmin(s) == isAdmin[s]

Reply(route, status, detail, processed, errors) ==
    [route |-> route, status |-> status, detail |-> detail, processed |-> processed,
     errors |-> errors, expected |-> "", received |-> ""]

\* a header rejection that carries the message alone
MessageOnlyReply(route, detail, expected, received) == Reply(route, 400, detail, 0, <<>>)

\* res.status(400).json({ message, expected: expectedHeaders, received: headers })
HeaderReply(route, detail, expected, received) ==
    [Reply(route, 400, detail, 0, <<>>) EXCEPT !.expected = expected, !.received = received]

Unauthorized(route) == Reply(route, 401, "Admin access required", 0, <<>>)

RowError(row, kind) == [row |-> row, kind |-> kind]

\* the outcome of the row loop so far
NoRows == [data |-> <<>>, errors |-> <<>>]

\* a row loop that numbers the first data row 1
CsvRowStepFromOne(cs, acc, line, i) ==
    IF line.cols < 6
    THEN [acc EXCEPT !.errors = Append(@, RowError(i + 1, "Insufficient columns"))]
    ELSE IF ~HasContractor(cs, line.empNo)
    THEN [acc EXCEPT !.errors = Append(@, RowError(i + 1, "not found in roster"))]
    ELSE [acc EXCEPT !.data = Append(@, InsertItem(line.empNo, line.month, line))]

\* a row loop that stores a row whether or not its contractor is on the roster
CsvRowStepUnchecked(cs, acc, line, i) ==
    IF line.cols < 6
    THEN [acc EXCEPT !.errors = Append(@, RowError(i + 2, "Insufficient columns"))]
    ELSE [acc EXCEPT !.data = Append(@, InsertItem(line.empNo, line.month, line))]

\* one turn of the row loop of POST /api/upload-csv on dataRows[i + 1]
CsvRowStep(cs, acc, line, i) ==
    IF line.cols < 6
    THEN [acc EXCEPT !.errors = Append(@, RowError(i + 2, "Insufficient columns"))]
    ELSE IF ~HasContractor(cs, line.empNo)
    THEN [acc EXCEPT !.errors = Append(@, RowError(i + 2, "not found in roster"))]
    ELSE [acc EXCEPT !.data = Append(@, InsertItem(line.empNo, line.month, line))]

\* the row loop of POST /api/upload-csv over dataRows[1..n]
RECURSIVE CsvRows(_, _, _)
CsvRows(cs, dataRows, n) ==
    IF n = 0 THEN NoRows
    ELSE CsvRowStep(cs, CsvRows(cs, dataRows, n - 1), dataRows[n], n - 1)

\* whether a bulk upsert meets a pair that is stored already
RECURSIVE MeetsStoredPair(_, _, _)
MeetsStoredPair(b, pd, data) ==
    IF data = <<>> THEN FALSE
    ELSE \/ HasKey(pd, KeyOf(Head(data)))
         \/ MeetsStoredPair(b, Upsert(b, pd, Head(data), 0), Tail(data))

RouteFrame == UNCHANGED <<clients, backend, now, result, uploads>>

\* POST /api/auth/login, the password right or wrong
Login(s, valid) ==
    /\ isAdmin' = IF valid THEN [isAdmin EXCEPT ![s] = TRUE] ELSE isAdmin
    /\ response' = IF valid THEN Reply("POST /api/auth/login", 200, "Login successful", 0, <<>>)
                   ELSE Reply("POST /api/auth/login", 401, "Invalid password", 0, <<>>)
    /\ lastOp' = NoOp
    /\ UNCHANGED stores
    /\ RouteFrame

\* POST /api/auth/logout: the session is destroyed
Logout(s) ==
    /\ isAdmin' = [isAdmin EXCEPT ![s] = FALSE]
    /\ response' = Reply("POST /api/auth/logout", 200, "Logout successful", 0, <<>>)
    /\ lastOp' = NoOp
    /\ UNCHANGED stores
    /\ RouteFrame

\* a request turned away before any storage call
Rejected(reply) ==
    /\ response' = reply
    /\ lastOp' = NoOp
    /\ UNCHANGED <<stores, isAdmin>>
    /\ RouteFrame

\* POST /api/upload-csv
UploadCsv(s, file) ==
    LET route == "POST /api/upload-csv"
        lines == NonBlankLines(file)
        dataRows == Tail(lines)
        rows == CsvRows(contractors, dataRows, Len(dataRows))
    IN  IF ~RequireAdmin(s) THEN Rejected(Unauthorized(route))
        ELSE IF Len(lines) < 2
        THEN Rejected(Reply(route, 400, "CSV file must contain headers and at least one data row",
                            0, <<>>))
        ELSE IF ~HeaderIs(lines[1], "productivity")
        THEN Rejected(HeaderReply(route,
                                  IF HeaderIs(lines[1], "roster")
                                  THEN "This appears to be a contractor roster file"
                                  ELSE "CSV headers don't match expected format",
                                  "productivity", lines[1].header))
        ELSE IF Len(rows.errors) > 0 /\ Len(rows.data) = 0
        THEN /\ response' = Reply(route, 400, "No valid data to process", 0,
                                  Slice0(rows.errors, ErrorCap))
             /\ lastOp' = Did("getContractor", "undefined")
             /\ UNCHANGED <<stores, isAdmin>>
             /\ RouteFrame
        ELSE /\ productivityData' =
                    BulkCreateProductivityData(backend, productivityData, rows.data, now)
             /\ response' = Reply(route, 200, "Successfully processed", Len(rows.data),
                                  Slice0(rows.errors, ErrorCap))
             /\ lastOp' = Did("bulkCreateProductivityData",
                              IF MeetsStoredPair(backend, productivityData, rows.data)
                              THEN "updated" ELSE "inserted")
             /\ UNCHANGED <<contractors, isAdmin>>
             /\ RouteFrame

\* POST /api/upload-csv under DatabaseStorage when the database rejects the INSERT of the
\* n-th valid row (a text with a NUL character, a value outside real, a lost connection):
\* bulkCreateProductivityData throws out of its loop and the handler's catch answers 500
UploadCsvInsertFails(s, file, n) ==
    LET route == "POST /api/upload-csv"
        lines == NonBlankLines(file)
        dataRows == Tail(lines)
        rows == CsvRows(contractors, dataRows, Len(dataRows))
    IN  /\ backend = "db"
        /\ RequireAdmin(s)
        /\ Len(lines) >= 2
        /\ HeaderIs(lines[1], "productivity")
        /\ n \in 1..Len(rows.data)
        /\ productivityData' =
               BulkCreateProductivityData(backend, productivityData,
                                          SubSeq(rows.data, 1, n - 1), now)
        /\ response' = Reply(route, 500, "Failed to process CSV file", 0, <<>>)
        /\ lastOp' = Did("bulkCreateProductivityData", "throws")
        /\ UNCHANGED <<contractors, isAdmin>>
        /\ RouteFrame

\* one turn of the row loop of POST /api/upload-contractor-roster on dataRows[i + 1]
RosterRowStep(acc, line, i) ==
    IF line.cols < 9
    THEN [acc EXCEPT !.errors = Append(@, RowError(i + 2, "Insufficient columns"))]
    ELSE [acc EXCEPT !.data = Append(@, [id |-> line.empNo, name |-> NameOf(line.empNo),
                                          status |-> "active", contractorType |-> Keep])]

RECURSIVE RosterRows(_, _)
RosterRows(dataRows, n) ==
    IF n = 0 THEN NoRows
    ELSE RosterRowStep(RosterRows(dataRows, n - 1), dataRows[n], n - 1)

\* POST /api/upload-contractor-roster
UploadRoster(s, file) ==
    LET route == "POST /api/upload-contractor-roster"
        lines == NonBlankLines(file)
        dataRows == Tail(lines)
        rows == RosterRows(dataRows, Len(dataRows))
    IN  IF ~RequireAdmin(s) THEN Rejected(Unauthorized(route))
        ELSE IF Len(lines) < 2
        THEN Rejected(Reply(route, 400, "CSV file must contain headers and at least one data row",
                            0, <<>>))
        ELSE IF ~HeaderIs(lines[1], "roster")
        THEN Rejected(HeaderReply(route, "CSV headers don't match expected format", "roster",
                                  lines[1].header))
        ELSE IF Len(rows.errors) > 0 /\ Len(rows.data) = 0
        THEN Rejected(Reply(route, 400, "No valid contractor data to process", 0,
                            Slice0(rows.errors, ErrorCap)))
        ELSE /\ contractors' = IF backend = "mem"
                               THEN MemBulkCreateContractors(contractors, rows.data)
                               ELSE DbBulkCreateContractors(contractors, rows.data)
             /\ IF backend = "db" /\ DbBulkCreateContractorsThrows(contractors, rows.data)
                THEN /\ response' = Reply(route, 500,
                                          "Failed to process contractor roster CSV file", 0, <<>>)
                     /\ lastOp' = Did("bulkCreateContractors", "throws")
                ELSE /\ response' = Reply(route, 200, "Successfully processed", Len(rows.data),
                                          Slice0(rows.errors, ErrorCap))
                     /\ lastOp' = Did("bulkCreateContractors", "ok")
             /\ UNCHANGED <<productivityData, isAdmin>>
             /\ RouteFrame

\* the request bodies of POST /api/contractors that pass insertContractorSchema
CreateBodies ==
    { [id |-> 1, name |-> NameOf(1), status |-> Keep, contractorType |-> Keep],
      [id |-> 2, name |-> NameOf(2), status |-> Keep, contractorType |-> Keep] }

\* POST /api/contractors
PostContractor(s, body) ==
    LET route == "POST /api/contractors"
    IN  IF ~RequireAdmin(s) THEN Rejected(Unauthorized(route))
        ELSE /\ contractors' = IF backend = "mem" THEN MemCreateContractor(contractors, body)
                               ELSE DbCreateContractor(contractors, body)
             /\ IF backend = "db" /\ DbCreateContractorThrows(contractors, body)
                THEN /\ response' = Reply(route, 500, "Failed to create contractor", 0, <<>>)
                     /\ lastOp' = Did("createContractor", "throws")
                ELSE /\ response' = Reply(route, 201, "", 0, <<>>)
                     /\ lastOp' = Did("createContractor", "ok")
             /\ UNCHANGED <<productivityData, isAdmin>>
             /\ RouteFrame

\* req.params.id of the contractor routes
IdParams == { <<"1">>, <<"2">>, <<"9">>, <<"x">> }

\* a request body of PUT /api/contractors/:id, once updateSchema has parsed it
UpdateBody(status, contractorType) ==
    [name |-> Keep, status |-> status, contractorType |-> contractorType]

\* the PUT /api/contractors/:id requests made in the model: req.params.id and the body
UpdateRequests ==
    { <<<<"1">>, UpdateBody("active", Keep)>>, <<<<"1">>, UpdateBody("archived", Keep)>>,
      <<<<"2">>, UpdateBody(Keep, PartTime)>>, <<<<"9">>, UpdateBody("active", Keep)>>,
      <<<<"x">>, UpdateBody("active", Keep)>> }

\* PUT /api/contractors/:id
PutContractor(s, idParam, body) ==
    LET route == "PUT /api/contractors/:id"
        id == ParseInt(idParam)
    IN  IF ~RequireAdmin(s) THEN Rejected(Unauthorized(route))
        ELSE IF id.nan THEN Rejected(Reply(route, 400, "Invalid contractor ID", 0, <<>>))
        ELSE /\ contractors' = UpdateContractor(contractors, id.val, body)
             /\ IF HasContractor(contractors, id.val)
                THEN /\ response' = Reply(route, 200, "", 0, <<>>)
                     /\ lastOp' = Did("updateContractor", "ok")
                ELSE /\ response' = Reply(route, 404, "Contractor not found", 0, <<>>)
                     /\ lastOp' = Did("updateContractor", "undefined")
             /\ UNCHANGED <<productivityData, isAdmin>>
             /\ RouteFrame

\* DELETE /api/contractors/:id
DeleteContractor(s, idParam) ==
    LET route == "DELETE /api/contractors/:id"
        id == ParseInt(idParam)
    IN  IF ~RequireAdmin(s) THEN Rejected(Unauthorized(route))
        ELSE IF id.nan THEN Rejected(Reply(route, 400, "Invalid contractor ID", 0, <<>>))
        ELSE /\ contractors' = ArchiveContractor(contractors, id.val)
             /\ IF HasContractor(contractors, id.val)
                THEN /\ response' = Reply(route, 200, "Contractor archived successfully", 0, <<>>)
                     /\ lastOp' = Did("archiveContractor", "true")
                ELSE /\ response' = Reply(route, 404, "Contractor not found", 0, <<>>)
                     /\ lastOp' = Did("archiveContractor", "false")
             /\ UNCHANGED <<productivityData, isAdmin>>
             /\ RouteFrame

Letters ==
    { "A", "B", "C", "D", "E", "F", "G", "H", "I", "J", "K", "L", "M", "N", "O", "P", "Q",
      "R", "S", "T", "U", "V", "W", "X", "Y", "Z", "a", "b", "c", "d", "e", "f", "g", "h",
      "i", "j", "k", "l", "m", "n", "o", "p", "q", "r", "s", "t", "u", "v", "w", "x", "y",
      "z" }

\* /^[A-Za-z]{3}-\d{2}$/
IsMonthToken(m) ==
    /\ Len(m) = 6
    /\ \A i \in 1..3 : m[i] \in Letters
    /\ m[4] = "-"
    /\ \A i \in 5..6 : IsDigit(m[i])

\* req.params.month of DELETE /api/productivity/:month
MonthParams == Months \cup { <<"2", "5", "-", "A", "u", "g">> }

\* DELETE /api/productivity/:month, the Origin header absent, of this host or foreign
DeleteMonth(s, month, origin) ==
    LET route == "DELETE /api/productivity/:month"
    IN  IF ~RequireAdmin(s) THEN Rejected(Unauthorized(route))
        ELSE IF ~IsMonthToken(month)
        THEN Rejected(Reply(route, 400, "Invalid month format", 0, <<>>))
        ELSE IF origin = "foreign"
        THEN Rejected(Reply(route, 403, "Forbidden: Invalid origin", 0, <<>>))
        ELSE /\ productivityData' = DeleteProductivityByMonth(productivityData, month)
             /\ IF productivityData' # productivityData
                THEN /\ response' = Reply(route, 200, "Successfully deleted", 0, <<>>)
                     /\ lastOp' = Did("deleteProductivityByMonth", "true")
                ELSE /\ response' = Reply(route, 404, "No productivity data found", 0, <<>>)
                     /\ lastOp' = Did("deleteProductivityByMonth", "false")
             /\ UNCHANGED <<contractors, isAdmin>>
             /\ RouteFrame

\* time passes
Tick ==
    /\ now < MaxClock
    /\ now' = now + 1
    /\ UNCHANGED <<clients, backend, contractors, productivityData, isAdmin, response, lastOp, result,
                   uploads>>

\* contractor 1 is on the roster (Full Time, active), nothing is stored for any month
Init ==
    /\ NoClients
    /\ backend \in Backends
    /\ contractors = { [id |-> 1, name |-> NameOf(1), status |-> "active",
                        contractorType |-> FullTime] }
    /\ productivityData = <<>>
    /\ now = 0
    /\ isAdmin = [s \in Sessions |-> FALSE]
    /\ response = NoResponse
    /\ lastOp = NoOp
    /\ result = NoResult
    /\ uploads = <<>>

Next ==
    \/ \E s \in Sessions, valid \in BOOLEAN : Login(s, valid)
    \/ \E s \in Sessions : Logout(s)
    \/ \E s \in Sessions, file \in CsvFiles : UploadCsv(s, file)
    \/ \E s \in Sessions, file \in CsvFiles, n \in 1..MaxBatch : UploadCsvInsertFails(s, file, n)
    \/ \E s \in Sessions, file \in RosterFiles : UploadRoster(s, file)
    \/ \E s \in Sessions, body \in CreateBodies : PostContractor(s, body)
    \/ \E s \in Sessions, request \in UpdateRequests :
          PutContractor(s, request[1], request[2])
    \/ \E s \in Sessions, idParam \in IdParams : DeleteContractor(s, idParam)
    \/ \E s \in Sessions, month \in MonthParams, origin \in {"none", "same", "foreign"} :
          DeleteMonth(s, month, origin)
    \/ Tick

Spec == Init /\ [][Next]_vars

(***************************************************************************)
(* Claims about the routes                                                 *)
(***************************************************************************)
\* the stored records of a pair
RecordsOf(pd, k) == { i \in 1..Len(pd) : KeyOf(pd[i].val) = k }

\* the last row of an upload that names the pair
LastFor(data, k) ==
    data[CHOOSE i \in 1..Len(data) :
            /\ KeyOf(data[i]) = k
            /\ \A j \in (i + 1)..Len(data) : KeyOf(data[j]) # k]

\* the rows an accepted productivity upload hands to the bulk upsert
UploadedRows(file) ==
    LET dataRows == Tail(NonBlankLines(file))
    IN  CsvRows(contractors, dataRows, Len(dataRows)).data

\* an upload that the route answers with 200
AcceptedUpload(s, file) ==
    /\ UploadCsv(s, file)
    /\ response'.status = 200

\* C2: a bulk upload never adds a second record for a pair that is stored already: the pair
\* keeps exactly one record, which now carries the uploaded productive hours, total hours and
\* productivity and a creation timestamp of the time of the upload; the records of the pairs
\* the upload does not name are left as they were
C2_UploadUpserts ==
    [][\A s \in Sessions, file \in CsvFiles :
          lastOp'.op = "bulkCreateProductivityData" /\ now' = now /\ AcceptedUpload(s, file) =>
              \A k \in { KeyOf(productivityData[i].val) : i \in 1..Len(productivityData) } :
                  IF \E j \in 1..Len(UploadedRows(file)) : KeyOf(UploadedRows(file)[j]) = k
                  THEN /\ Cardinality(RecordsOf(productivityData', k)) = 1
                       /\ \A i \in RecordsOf(productivityData', k) :
                             LET row == productivityData'[i].val
                                 item == LastFor(UploadedRows(file), k)
                             IN  /\ row.productiveHours = item.productiveHours
                                 /\ row.totalHours = item.totalHours
                                 /\ row.productivity = item.productivity
                                 /\ row.createdAt = now
                  ELSE { productivityData'[i].val : i \in RecordsOf(productivityData', k) }
                          = { productivityData[i].val : i \in RecordsOf(productivityData, k) }
      ]_vars

\* an upload has overwritten the figures of a stored pair at a later time than it was first
\* stored, next to a record of another pair it did not name
C2_Witness ==
    /\ lastOp = Did("bulkCreateProductivityData", "updated")
    /\ response.processed = 1
    /\ now > 0
    /\ \E i, j \in 1..Len(productivityData) :
          /\ productivityData[i].val.createdAt = now
          /\ productivityData[i].val.productivity = ReadingB.productivity
          /\ productivityData[j].val.createdAt < now

\* C4: archiveContractor(id) on an existing contractor changes only that contractor's status,
\* to archived: the contractor is still there with its other fields, every productivity record
\* is still present with unchanged values, and every other contractor is unchanged
C4_ArchiveChangesOnlyStatus ==
    [][\A s \in Sessions, idParam \in IdParams :
          /\ lastOp' = Did("archiveContractor", "true")
          /\ DeleteContractor(s, idParam)
          => LET id == ParseInt(idParam).val
             IN  /\ productivityData' = productivityData
                 /\ Cardinality(contractors') = Cardinality(contractors)
                 /\ \A x \in contractors :
                       IF x.id = id
                       THEN \E y \in contractors' :
                               /\ y.id = id
                               /\ y.status = "archived"
                               /\ y.name = x.name
                               /\ y.contractorType = x.contractorType
                       ELSE x \in contractors'
      ]_vars

\* a Part Time contractor with a stored record has been archived next to another contractor
C4_Witness ==
    /\ lastOp = Did("archiveContractor", "true")
    /\ response.status = 200
    /\ \E c, d \in contractors :
          /\ c.status = "archived"
          /\ c.contractorType = PartTime
          /\ d.status = "active"
          /\ \E i \in 1..Len(productivityData) : productivityData[i].val.contractorId = c.id

\* C5: once a contractor's status is archived, it is archived in every later state, whatever
\* operation follows (create, roster upload, update, archive, productivity upload,
\* delete-month)
C5_ArchivedStaysArchived ==
    [][\A c \in contractors :
          c.status = "archived" =>
              \E d \in contractors' : d.id = c.id /\ d.status = "archived"
      ]_vars

\* the routes that write to a store
WriteRoutes ==
    { "POST /api/upload-csv", "POST /api/upload-contractor-roster", "POST /api/contractors",
      "PUT /api/contractors/:id", "DELETE /api/contractors/:id",
      "DELETE /api/productivity/:month" }

\* a request to one of the write routes
WriteRequest(s) ==
    \/ \E file \in CsvFiles : UploadCsv(s, file)
    \/ \E file \in CsvFiles, n \in 1..MaxBatch : UploadCsvInsertFails(s, file, n)
    \/ \E file \in RosterFiles : UploadRoster(s, file)
    \/ \E body \in CreateBodies : PostContractor(s, body)
    \/ \E request \in UpdateRequests : PutContractor(s, request[1], request[2])
    \/ \E idParam \in IdParams : DeleteContractor(s, idParam)
    \/ \E month \in MonthParams, origin \in {"none", "same", "foreign"} :
          DeleteMonth(s, month, origin)

\* C6: no request made with a session whose isAdmin flag is not set changes the contractor
\* store or the productivity store: the productivity upload, roster upload, create, update,
\* archive and delete-month routes each answer 401 before any storage call
C6_WritesNeedAdmin ==
    [][\A s \in Sessions :
          ~isAdmin[s] =>
              /\ UNCHANGED stores
              /\ WriteRequest(s) =>
                    /\ response'.route \in WriteRoutes
                    /\ response'.status = 401
                    /\ lastOp' = NoOp
      ]_vars

\* an upload was turned away with 401 while both stores held data
C6_Witness ==
    /\ ~isAdmin["s1"]
    /\ response.route = "POST /api/upload-csv"
    /\ response.status = 401
    /\ lastOp = NoOp
    /\ productivityData # <<>>
    /\ Cardinality(contractors) = 2

(***************************************************************************)
(* Two uploads in flight (SpecConc): a handler runs from one await to the  *)
(* next, and the other handler may run in between                          *)
(***************************************************************************)
Procs == {"u1", "u2"}

\* the request of an upload in flight and how far its handler has come
Upload(file, pc, i, rows, j) == [file |-> file, pc |-> pc, i |-> i, rows |-> rows, j |-> j]

\* the files of the two requests: each has a row for contractor 1 in Aug-25
ConcFiles(p) ==
    LET h == HeaderLine("productivity")
        mine == IF p = "u1" THEN ReadingA ELSE ReadingB
        a == DataLine(1, Aug25, mine)
        d == DataLine(2, Sep25, mine)
    IN  { <<h, a>>, <<h, a, d>>, <<h, d, a>> }

\* MemStorage.bulkCreateProductivityData from item j + 1 up to its next await: a stored pair
\* is overwritten without an await, `await this.createProductivityData(item)` yields
RECURSIVE MemBulkTurn(_, _, _, _)
MemBulkTurn(pd, data, j, t) ==
    IF j = Len(data) THEN [pd |-> pd, j |-> j]
    ELSE IF HasKey(pd, KeyOf(data[j + 1]))
    THEN MemBulkTurn(MemUpsert(pd, data[j + 1], t), data, j + 1, t)
    ELSE [pd |-> MemUpsert(pd, data[j + 1], t), j |-> j + 1]

\* DatabaseStorage.bulkCreateProductivityData from item j + 1 up to its next await: one
\* INSERT ... ON CONFLICT DO UPDATE statement
DbBulkTurn(pd, data, j, t) == [pd |-> DbUpsert(pd, data[j + 1], t), j |-> j + 1]

BulkTurn(b, pd, data, j, t) ==
    IF b = "mem" THEN MemBulkTurn(pd, data, j, t) ELSE DbBulkTurn(pd, data, j, t)

ConcFrame == UNCHANGED <<clients, backend, contractors, now, isAdmin, lastOp, result>>

\* POST /api/upload-csv up to its first `await storage.getContractor`
ConcStart(p) ==
    LET u == uploads[p]
        route == "POST /api/upload-csv"
        lines == NonBlankLines(u.file)
    IN  /\ u.pc = "idle"
        /\ IF ~RequireAdmin("s1")
           THEN /\ uploads' = [uploads EXCEPT ![p].pc = "done"]
                /\ response' = Unauthorized(route)
           ELSE IF Len(lines) < 2 \/ ~HeaderIs(lines[1], "productivity")
           THEN /\ uploads' = [uploads EXCEPT ![p].pc = "done"]
                /\ response' = Reply(route, 400, "CSV headers don't match expected format",
                                     0, <<>>)
           ELSE /\ uploads' = [uploads EXCEPT ![p].pc = "rows"]
                /\ UNCHANGED response
        /\ UNCHANGED productivityData
        /\ ConcFrame

\* from the answer of one getContractor to the next await: the next row's getContractor, the
\* 400 for a file without a valid row, or the first await of bulkCreateProductivityData
ConcCheckRow(p) ==
    LET u == uploads[p]
        route == "POST /api/upload-csv"
        dataRows == Tail(NonBlankLines(u.file))
        rows == CsvRowStep(contractors, u.rows, dataRows[u.i + 1], u.i)
        turn == IF backend = "mem" THEN MemBulkTurn(productivityData, rows.data, 0, now)
                ELSE [pd |-> productivityData, j |-> 0]
    IN  /\ u.pc = "rows"
        /\ IF u.i + 1 < Len(dataRows)
           THEN /\ uploads' = [uploads EXCEPT ![p] = Upload(u.file, "rows", u.i + 1, rows, 0)]
                /\ UNCHANGED <<productivityData, response>>
           ELSE IF Len(rows.errors) > 0 /\ Len(rows.data) = 0
           THEN /\ uploads' = [uploads EXCEPT ![p] = Upload(u.file, "done", u.i + 1, rows, 0)]
                /\ response' = Reply(route, 400, "No valid data to process", 0,
                                     Slice0(rows.errors, ErrorCap))
                /\ UNCHANGED productivityData
           ELSE /\ uploads' = [uploads EXCEPT ![p] =
                                  Upload(u.file,
                                         IF backend = "mem" /\ turn.j = Len(rows.data)
                                         THEN "reply" ELSE "bulk",
                                         u.i + 1, rows, turn.j)]
                /\ productivityData' = turn.pd
                /\ UNCHANGED response
        /\ ConcFrame

\* bulkCreateProductivityData from one await to the next
ConcBulkTurn(p) ==
    LET u == uploads[p]
        turn == BulkTurn(backend, productivityData, u.rows.data, u.j, now)
    IN  /\ u.pc = "bulk"
        /\ productivityData' = turn.pd
        /\ uploads' = [uploads EXCEPT ![p].j = turn.j,
                                      ![p].pc = IF turn.j = Len(u.rows.data) THEN "reply"
                                                ELSE "bulk"]
        /\ UNCHANGED response
        /\ ConcFrame

\* res.json({ message, processed, errors })
ConcReply(p) ==
    LET u == uploads[p]
    IN  /\ u.pc = "reply"
        /\ uploads' = [uploads EXCEPT ![p].pc = "done"]
        /\ response' = Reply("POST /api/upload-csv", 200, "Successfully processed",
                             Len(u.rows.data), Slice0(u.rows.errors, ErrorCap))
        /\ UNCHANGED productivityData
        /\ ConcFrame

\* time passes while the uploads are in flight
ConcTick ==
    /\ now < MaxClock
    /\ now' = now + 1
    /\ UNCHANGED <<clients, backend, contractors, productivityData, isAdmin, response, lastOp, result,
                   uploads>>

\* the figures stored for contractor 1 in Aug-25 before the uploads, if any
EarlierReading == CHOOSE r \in Readings : r.productiveHours = 600

\* both contractors on the roster, the session logged in, two upload requests received
InitConc ==
    /\ NoClients
    /\ backend \in Backends
    /\ contractors = { [id |-> id, name |-> NameOf(id), status |-> "active",
                        contractorType |-> FullTime] : id \in ContractorIds }
    /\ productivityData \in
          { <<>>, << Entry(<<1, Aug25>>, Row(InsertItem(1, Aug25, EarlierReading), 0)) >> }
    /\ now = 0
    /\ isAdmin = [s \in Sessions |-> TRUE]
    /\ response = NoResponse
    /\ lastOp = NoOp
    /\ result = NoResult
    /\ \E f1 \in ConcFiles("u1"), f2 \in ConcFiles("u2") :
          uploads = [p \in Procs |-> Upload(IF p = "u1" THEN f1 ELSE f2, "idle", 0, NoRows, 0)]

NextConc ==
    \/ \E p \in Procs : ConcStart(p)
    \/ \E p \in Procs : ConcCheckRow(p)
    \/ \E p \in Procs : ConcBulkTurn(p)
    \/ \E p \in Procs : ConcReply(p)
    \/ ConcTick

SpecConc == InitConc /\ [][NextConc]_vars

\* the productive hours, total hours and productivity of a row or a record
Figures(v) == <<v.productiveHours, v.totalHours, v.productivity>>

\* the row of the file of request p that names the pair, the last one if several do
UploadedRow(p, k) ==
    LET dataRows == Tail(NonBlankLines(uploads[p].file))
    IN  LastFor([n \in 1..Len(dataRows) |->
                    InsertItem(dataRows[n].empNo, dataRows[n].month, dataRows[n])], k)

BothDone == \A p \in Procs : uploads[p].pc = "done"

\* C3: when two productivity uploads that each contain a row for the same pair run
\* concurrently, interleaved at every await point, the final store holds exactly one record
\* for that pair, and its productive hours, total hours and productivity all come from the
\* same one of the two rows; no record of another uploaded pair is lost or duplicated
C3_ConcurrentUploads ==
    BothDone =>
        /\ Cardinality(RecordsOf(productivityData, <<1, Aug25>>)) = 1
        /\ \A i \in RecordsOf(productivityData, <<1, Aug25>>) :
              \E p \in Procs :
                  Figures(productivityData[i].val) = Figures(UploadedRow(p, <<1, Aug25>>))
        /\ \A p \in Procs :
              \A n \in 1..Len(uploads[p].rows.data) :
                  Cardinality(RecordsOf(productivityData, KeyOf(uploads[p].rows.data[n]))) = 1

\* both uploads named both pairs, the shared pair first, and are done; the shared pair holds
\* the figures of u1 and the other pair those of u2, so u1 wrote both of its rows between
\* the two writes of u2
C3_Witness ==
    /\ BothDone
    /\ \A p \in Procs :
          /\ Len(uploads[p].rows.data) = 2
          /\ KeyOf(uploads[p].rows.data[1]) = <<1, Aug25>>
    /\ Len(productivityData) = 2
    /\ \E i, j \in 1..Len(productivityData) :
          /\ KeyOf(productivityData[i].val) = <<1, Aug25>>
          /\ KeyOf(productivityData[j].val) = <<2, Sep25>>
          /\ Figures(productivityData[i].val) = Figures(ReadingA)
          /\ Figures(productivityData[j].val) = Figures(ReadingB)

(***************************************************************************)
(* Claims about the uploads                                                *)
(***************************************************************************)
\* a productivity upload whose file passes the header check, whatever comes of it
CheckedUpload(s, file) ==
    /\ RequireAdmin(s)
    /\ Len(NonBlankLines(file)) >= 2
    /\ HeaderIs(NonBlankLines(file)[1], "productivity")
    /\ \/ UploadCsv(s, file)
       \/ \E n \in 1..MaxBatch : UploadCsvInsertFails(s, file, n)

\* the rows of the file that name a contractor of the roster and have their six columns
ValidRows(file) ==
    LET dataRows == Tail(NonBlankLines(file))
    IN  { n \in 1..Len(dataRows) :
            dataRows[n].cols >= 6 /\ HasContractor(contractors, dataRows[n].empNo) }

\* C11: in a productivity upload a failure while validating or upserting one row does not
\* stop the rows after it: every valid row of the file is upserted (the pair it names holds
\* the figures of the last valid row that names it) whatever happens to the other rows
C11_RowsIndependent ==
    [][\A s \in Sessions, file \in CsvFiles :
          response'.route = "POST /api/upload-csv" /\ CheckedUpload(s, file) =>
              LET dataRows == Tail(NonBlankLines(file))
              IN  \A n \in ValidRows(file) :
                     \/ \E m \in ValidRows(file) :
                           /\ m > n
                           /\ <<dataRows[m].empNo, dataRows[m].month>>
                                 = <<dataRows[n].empNo, dataRows[n].month>>
                     \/ \E i \in 1..Len(productivityData') :
                           /\ KeyOf(productivityData'[i].val)
                                 = <<dataRows[n].empNo, dataRows[n].month>>
                           /\ productivityData'[i].val.productiveHours
                                 = dataRows[n].productiveHours
                           /\ productivityData'[i].val.totalHours = dataRows[n].totalHours
                           /\ productivityData'[i].val.productivity = dataRows[n].productivity
      ]_vars

\* a productivity upload by an admin whose file is rejected as a whole
RejectedUpload(s, file) ==
    /\ RequireAdmin(s)
    /\ \/ Len(NonBlankLines(file)) < 2
       \/ ~HeaderIs(NonBlankLines(file)[1], "productivity")
    /\ UploadCsv(s, file)

\* the rejection leaves the stores alone and no row is looked at
WholeFileRejection ==
    /\ response'.status = 400
    /\ response'.processed = 0
    /\ response'.errors = <<>>
    /\ lastOp' = NoOp
    /\ UNCHANGED stores

\* the rejection reports the expected and the received headers, with the roster guidance
\* when the received headers are the roster's
ReportsHeaders(file) ==
    /\ Len(NonBlankLines(file)) >= 1
    /\ response'.expected = "productivity"
    /\ response'.received = NonBlankLines(file)[1].header
    /\ response'.detail = IF HeaderIs(NonBlankLines(file)[1], "roster")
                          THEN "This appears to be a contractor roster file"
                          ELSE "CSV headers don't match expected format"

\* C12 as claimed: a productivity upload whose header row does not match, or whose content
\* has fewer than two non-blank lines, is rejected as a whole with status 400, the stores
\* unchanged, and the rejection reports the expected and received headers (the roster
\* guidance when the received headers are the roster's)
C12_RejectionReportsHeaders ==
    [][\A s \in Sessions, file \in CsvFiles :
          response'.route = "POST /api/upload-csv" /\ RejectedUpload(s, file) =>
              WholeFileRejection /\ ReportsHeaders(file)
      ]_vars

\* C12 as the code has it: such an upload is rejected as a whole with status 400, the stores
\* unchanged; with two or more non-blank lines the rejection reports the expected and
\* received headers (the roster guidance when the received headers are the roster's), with
\* fewer it says that the file must contain headers and a data row and reports no headers
C12_WholeFileRejection ==
    [][\A s \in Sessions, file \in CsvFiles :
          response'.route = "POST /api/upload-csv" /\ RejectedUpload(s, file) =>
              /\ WholeFileRejection
              /\ IF Len(NonBlankLines(file)) >= 2
                 THEN ReportsHeaders(file)
                 ELSE /\ response'.detail
                            = "CSV file must contain headers and at least one data row"
                      /\ response'.expected = ""
                      /\ response'.received = ""
      ]_vars

\* a roster file sent to the productivity upload was turned away with the guidance while
\* records were stored
C12_Witness ==
    /\ response.route = "POST /api/upload-csv"
    /\ response.status = 400
    /\ response.detail = "This appears to be a contractor roster file"
    /\ response.expected = "productivity"
    /\ response.received = "roster"
    /\ productivityData # <<>>

\* the first min(10, n) of n row errors, in row order
FirstTen(errors) == SubSeq(errors, 1, IF Len(errors) < 10 THEN Len(errors) ELSE 10)

\* the row errors of a productivity file, in row order
CsvRowErrors(file) ==
    LET dataRows == Tail(NonBlankLines(file))
    IN  CsvRows(contractors, dataRows, Len(dataRows)).errors

\* a roster upload by an admin whose file passes the header check
CheckedRosterUpload(s, file) ==
    /\ RequireAdmin(s)
    /\ Len(NonBlankLines(file)) >= 2
    /\ HeaderIs(NonBlankLines(file)[1], "roster")
    /\ UploadRoster(s, file)

\* the rows of a roster file that have their nine columns
ValidRosterRows(file) ==
    LET dataRows == Tail(NonBlankLines(file))
    IN  { n \in 1..Len(dataRows) : dataRows[n].cols >= 9 }

\* the row errors of a roster file, in row order
RosterRowErrors(file) ==
    LET dataRows == Tail(NonBlankLines(file))
    IN  RosterRows(dataRows, Len(dataRows)).errors

\* what C13 says of the answer to a checked upload with `valid` valid rows and these row
\* errors
PartialSuccess(valid, errors) ==
    IF valid = 0
    THEN /\ response'.status >= 400
         /\ UNCHANGED stores
         /\ response'.errors = FirstTen(errors)
    ELSE /\ response'.status = 200
         /\ response'.processed = valid
         /\ response'.errors = FirstTen(errors)

\* C13: for an upload that passes the header check, when no data row parses the request is
\* reported as failed and nothing is stored, when at least one row parses the response is a
\* success carrying the processed count together with the row errors, and either way the
\* returned error list is the first min(10, number of row errors) errors in row order
C13_PartialSuccess ==
    [][/\ \A s \in Sessions, file \in CsvFiles :
             response'.route = "POST /api/upload-csv" /\ CheckedUpload(s, file) =>
                 PartialSuccess(Cardinality(ValidRows(file)), CsvRowErrors(file))
       /\ \A s \in Sessions, file \in RosterFiles :
             response'.route = "POST /api/upload-contractor-roster"
                /\ CheckedRosterUpload(s, file) =>
                 PartialSuccess(Cardinality(ValidRosterRows(file)), RosterRowErrors(file))
      ]_vars

\* C14: a roster upload fails as a whole batch only when zero rows survived validation:
\* whenever at least one data row is valid the request succeeds and every valid row is
\* stored as a contractor, whatever the contractor store held before the upload
C14_RosterStoresValidRows ==
    [][\A s \in Sessions, file \in RosterFiles :
          /\ response'.route = "POST /api/upload-contractor-roster"
          /\ CheckedRosterUpload(s, file)
          /\ ValidRosterRows(file) # {}
          => /\ response'.status = 200
             /\ \A n \in ValidRosterRows(file) :
                   \E c \in contractors' :
                       /\ c.id = Tail(NonBlankLines(file))[n].empNo
                       /\ c.name = NameOf(c.id)
                       /\ c.status = "active"
      ]_vars

\* the file of the scenario: a row for contractor 1, then a row for an id not on the roster,
\* both for Aug-25
ScenarioFile ==
    << HeaderLine("productivity"), DataLine(1, Aug25, ReadingA), DataLine(9, Aug25, ReadingA) >>

\* C15: uploading a productivity CSV whose first data row is for a contractor of the roster
\* and whose second is for an id not on the roster, month Aug-25 with no other record stored
\* for that month, returns processed: 1 and exactly one error, which names row 3 and says
\* "not found in roster"; afterwards no record exists for the unknown id and the month's
\* ranking holds exactly one entry, contractor 1 at rank 1
C15_UnknownContractorScenario ==
    [][\A s \in Sessions :
          /\ response'.route = "POST /api/upload-csv"
          /\ RequireAdmin(s)
          /\ \A i \in 1..Len(productivityData) :
                productivityData[i].val.month = Aug25
                   => productivityData[i].val.contractorId = 1
          /\ UploadCsv(s, ScenarioFile)
          => /\ response'.status = 200
             /\ response'.processed = 1
             /\ Len(response'.errors) = 1
             /\ response'.errors[1].row = 3
             /\ response'.errors[1].kind = "not found in roster"
             /\ \A i \in 1..Len(productivityData') : productivityData'[i].val.contractorId # 9
             /\ \A r \in GetMonthlyRankings(backend, contractors', productivityData', Aug25) :
                   /\ Len(r) = 1
                   /\ r[1].contractorId = 1
                   /\ r[1].rank = 1
      ]_vars

\* the scenario has been played on a store that held a record of another month
C15_Witness ==
    /\ response.route = "POST /api/upload-csv"
    /\ response.status = 200
    /\ response.processed = 1
    /\ response.errors = << RowError(3, "not found in roster") >>
    /\ Len(productivityData) = 2
    /\ \E i \in 1..Len(productivityData) : productivityData[i].val.month = Sep25
    /\ \E i \in 1..Len(productivityData) :
          /\ KeyOf(productivityData[i].val) = <<1, Aug25>>
          /\ productivityData[i].val.createdAt = now

(***************************************************************************)
(* Text functions, applied to inputs drawn at the start                    *)
(***************************************************************************)
MaxFieldLen == 3

\* the texts of at most n characters over an alphabet
RECURSIVE Texts(_, _)
Texts(alphabet, n) ==
    IF n = 0 THEN { <<>> }
    ELSE Texts(alphabet, n - 1)
            \cup { Append(t, ch) : t \in { u \in Texts(alphabet, n - 1) : Len(u) = n - 1 },
                                   ch \in alphabet }

\* white space as String.prototype.trim and \s see it
WhiteSpace == { " ", "\t", "\n", "\r", "BOM" }

RECURSIVE TrimEnd(_)
TrimEnd(s) ==
    IF s # <<>> /\ s[Len(s)] \in WhiteSpace THEN TrimEnd(SubSeq(s, 1, Len(s) - 1)) ELSE s

RECURSIVE TrimLeft(_)
TrimLeft(s) == IF s # <<>> /\ Head(s) \in WhiteSpace THEN TrimLeft(Tail(s)) ELSE s

\* String.prototype.trim
Trim(s) == TrimEnd(TrimLeft(s))

\* value.replace(/"/g, '""')
RECURSIVE DoubleQuotes(_)
DoubleQuotes(s) ==
    IF s = <<>> THEN <<>>
    ELSE (IF Head(s) = "\"" THEN <<"\"", "\"">> ELSE <<Head(s)>>) \o DoubleQuotes(Tail(s))

\* /^[=+\-@\t]/.test(stringValue.trim())
LooksLikeFormula(stringValue) ==
    LET t == Trim(stringValue)
    IN  t # <<>> /\ Head(t) \in { "=", "+", "-", "@", "\t" }

\* stringValue.includes(',') || includes('"') || includes('\n') || includes('\r')
NeedsQuoting(stringValue) == \E i \in 1..Len(stringValue) : stringValue[i] \in { ",", "\"", "\n", "\r" }

\* escapeCsvField of the server, on a string
EscapeCsvField(value) ==
    LET stringValue == IF LooksLikeFormula(value) THEN <<"'">> \o value ELSE value
    IN  IF NeedsQuoting(stringValue)
        THEN <<"\"">> \o DoubleQuotes(stringValue) \o <<"\"">>
        ELSE stringValue

\* escapeCsvValue of the client, on a string
EscapeCsvValue(value) ==
    LET stringValue == IF LooksLikeFormula(value) THEN <<"'">> \o value ELSE value
    IN  IF NeedsQuoting(stringValue)
        THEN <<"\"">> \o DoubleQuotes(stringValue) \o <<"\"">>
        ELSE stringValue

\* the field values given to the escaping functions
FieldAlphabet == { "=", "+", "-", "@", "\t", " ", "a", ",", "\"", "\n" }
Fields == Texts(FieldAlphabet, MaxFieldLen)

\* a function applied to an input, and what it returned
Applied(op, input, output) == [op |-> op, input |-> input, output |-> output]

TextFrame ==
    UNCHANGED <<clients, backend, contractors, productivityData, now, isAdmin, response, lastOp, uploads>>

\* the stores and the session play no part in the text functions
TextInit(inputs) ==
    /\ NoClients
    /\ backend = "mem"
    /\ contractors = {}
    /\ productivityData = <<>>
    /\ now = 0
    /\ isAdmin = [s \in Sessions |-> FALSE]
    /\ response = NoResponse
    /\ lastOp = NoOp
    /\ uploads = <<>>
    /\ \E input \in inputs : result = Applied("none", input, <<>>)

\* the server writes a field of an export
EscapeCsvFieldCall ==
    /\ result.op = "none"
    /\ result' = Applied("escapeCsvField", result.input, EscapeCsvField(result.input))
    /\ TextFrame

\* the client writes a field of an export
EscapeCsvValueCall ==
    /\ result.op = "none"
    /\ result' = Applied("escapeCsvValue", result.input, EscapeCsvValue(result.input))
    /\ TextFrame

InitCsv == TextInit(Fields)

NextCsv == EscapeCsvFieldCall \/ EscapeCsvValueCall

SpecCsv == InitCsv /\ [][NextCsv]_vars

\* the text of an emitted field as a CSV reader takes it: the quotes around it removed and
\* the doubled quotes inside it undone
RECURSIVE UndoubleQuotes(_)
UndoubleQuotes(s) ==
    IF s = <<>> THEN <<>>
    ELSE IF Len(s) >= 2 /\ s[1] = "\"" /\ s[2] = "\""
    THEN <<"\"">> \o UndoubleQuotes(Tail(Tail(s)))
    ELSE <<Head(s)>> \o UndoubleQuotes(Tail(s))

EmittedText(out) ==
    IF Len(out) >= 2 /\ out[1] = "\"" /\ out[Len(out)] = "\""
    THEN UndoubleQuotes(SubSeq(out, 2, Len(out) - 1))
    ELSE out

\* C16: every field written to an export CSV whose text starts with '=', '+', '-', '@' or a
\* tab character is emitted with a leading single quote in front of it, by the server's
\* escapeCsvField and by the client's escapeCsvValue
C16_FormulaPrefix ==
    /\ result.op \in { "escapeCsvField", "escapeCsvValue" }
    /\ result.input # <<>>
    /\ result.input[1] \in { "=", "+", "-", "@", "\t" }
    => EmittedText(result.output) = <<"'">> \o result.input

(***************************************************************************)
(* The contractor calls of IStorage, ids left out included (SpecRoster)    *)
(***************************************************************************)
MaxContractors == 3

\* InsertContractor values without an id
IdLessInserts ==
    { [id |-> KeepNum, name |-> "New", status |-> Keep, contractorType |-> t] :
        t \in { Keep, PartTime } }

\* the rosters the calls start from
StartRosters ==
    { {} } \cup
    { { [id |-> id, name |-> NameOf(id), status |-> st, contractorType |-> FullTime] :
          id \in ids } : ids \in (SUBSET ContractorIds) \ { {} }, st \in Statuses }

InitRoster ==
    /\ NoClients
    /\ backend \in Backends
    /\ contractors \in StartRosters
    /\ productivityData = <<>>
    /\ now = 0
    /\ isAdmin = [s \in Sessions |-> FALSE]
    /\ response = NoResponse
    /\ lastOp = NoOp
    /\ result = NoResult
    /\ uploads = <<>>

\* storage.createContractor(c) while the roster is within the bound
CreateContractorInRoster(c) ==
    /\ Cardinality(contractors) < MaxContractors
    /\ CreateContractorCall(c)

NextRoster ==
    \/ \E c \in IdLessInserts \cup InsertContractors : CreateContractorInRoster(c)
    \/ \E id \in 1..MaxContractors : ArchiveContractorCall(id)
    \/ \E id \in 1..MaxContractors, patch \in ContractorPatches : UpdateContractorCall(id, patch)

SpecRoster == InitRoster /\ [][NextRoster]_vars

\* the largest id stored, 0 for an empty roster
LargestId(cs) == IF cs = {} THEN 0 ELSE CHOOSE m \in { x.id : x \in cs } : \A x \in cs : x.id <= m

\* C17: createContractor called without an id stores the new contractor under
\* id = (largest contractor id currently stored) + 1, or 1 when the roster is empty, and
\* never overwrites or collides with an existing contractor, in both storage backends
C17_NextIdSynthesized ==
    [][\A c \in IdLessInserts :
          lastOp'.op = "createContractor" /\ CreateContractorInRoster(c) =>
              /\ lastOp'.outcome = "ok"
              /\ contractors \subseteq contractors'
              /\ Cardinality(contractors') = Cardinality(contractors) + 1
              /\ \E x \in contractors' \ contractors :
                    /\ x.id = LargestId(contractors) + 1
                    /\ x.name = c.name
                    /\ x.status = "active"
      ]_vars

(***************************************************************************)
(* The two backends side by side                                           *)
(***************************************************************************)
\* the stored rows, ids and timestamps aside
Figured(pd) ==
    { [contractorId |-> pd[i].val.contractorId, month |-> pd[i].val.month,
       figures |-> Figures(pd[i].val)] : i \in 1..Len(pd) }

\* the sequences of one or two of the values
OneOrTwo(S) == { <<x>> : x \in S } \cup { <<x, y>> : x \in S, y \in S }

\* C18: started from the same contractors and records, MemStorage and DatabaseStorage return
\* the same results for getMonthlyRankings, getTopPerformers, getUnderPerformers,
\* createContractor, bulkCreateContractors and bulkCreateProductivityData, and end with the
\* same stored contractors and records (ids and timestamps aside); an order the database
\* leaves open counts as the same
C18_BackendsAgree ==
    result.op # "none" =>
        /\ \A month \in Months :
              /\ MemGetMonthlyRankings(contractors, productivityData, month)
                    \in DbGetMonthlyRankings(contractors, productivityData, month)
              /\ MemGetUnderPerformers(contractors, productivityData, month)
                    \in DbGetUnderPerformers(contractors, productivityData, month)
              /\ \A limit \in Limits :
                    GetTopPerformers("mem", contractors, productivityData, month, limit)
                       \subseteq GetTopPerformers("db", contractors, productivityData, month, limit)
        /\ \A c \in InsertContractors \cup IdLessInserts :
              /\ ~DbCreateContractorThrows(contractors, c)
              /\ MemCreateContractor(contractors, c) = DbCreateContractor(contractors, c)
        /\ \A data \in OneOrTwo(InsertContractors) :
              /\ ~DbBulkCreateContractorsThrows(contractors, data)
              /\ MemBulkCreateContractors(contractors, data)
                    = DbBulkCreateContractors(contractors, data)
        /\ \A data \in OneOrTwo(StorageItems) :
              Figured(BulkCreateProductivityData("mem", productivityData, data, now))
                 = Figured(BulkCreateProductivityData("db", productivityData, data, now))

(***************************************************************************)
(* Row numbers of the row errors                                           *)
(***************************************************************************)
\* the 1-based places in the uploaded file of the non-blank lines among file[1..n]
RECURSIVE OriginalRowsOf(_, _)
OriginalRowsOf(file, n) ==
    IF n = 0 THEN <<>>
    ELSE IF file[n].kind = "blank" THEN OriginalRowsOf(file, n - 1)
    ELSE Append(OriginalRowsOf(file, n - 1), n)

\* the places in the uploaded file of the data rows among dataRows[1..n] that are not in
\* `valid`, in row order (dataRows[k] is the (k + 1)-th non-blank line)
RECURSIVE OffendingRows(_, _, _)
OffendingRows(file, valid, n) ==
    IF n = 0 THEN <<>>
    ELSE IF n \in valid THEN OffendingRows(file, valid, n - 1)
    ELSE Append(OffendingRows(file, valid, n - 1), OriginalRowsOf(file, Len(file))[n + 1])

\* C19: each row error of a productivity upload carries the 1-based number of the offending
\* row in the original file, the header being row 1 and the first data row row 2, for every
\* file content, blank lines included
C19_ErrorsNameOriginalRows ==
    [][\A s \in Sessions, file \in CsvFiles :
          response'.route = "POST /api/upload-csv" /\ CheckedUpload(s, file) =>
              \A k \in 1..Len(response'.errors) :
                  response'.errors[k].row
                     = OffendingRows(file, ValidRows(file), Len(NonBlankLines(file)) - 1)[k]
      ]_vars

(***************************************************************************)
(* The header check of the two upload routes (SpecHeader)                  *)
(***************************************************************************)
\* a header row is the sequence of its cells as they stand between the commas of the line,
\* each cell a sequence of characters; the cells of the model hold no comma and no quote
UpperCase ==
    << "A", "B", "C", "D", "E", "F", "G", "H", "I", "J", "K", "L", "M",
       "N", "O", "P", "Q", "R", "S", "T", "U", "V", "W", "X", "Y", "Z" >>

LowerCase ==
    << "a", "b", "c", "d", "e", "f", "g", "h", "i", "j", "k", "l", "m",
       "n", "o", "p", "q", "r", "s", "t", "u", "v", "w", "x", "y", "z" >>

\* String.prototype.toLowerCase
ToLowerCase(t) ==
    [i \in 1..Len(t) |->
        IF \E n \in 1..Len(UpperCase) : UpperCase[n] = t[i]
        THEN LowerCase[CHOOSE n \in 1..Len(UpperCase) : UpperCase[n] = t[i]]
        ELSE t[i]]

\* t.replace(/\s+/g, ' ')
RECURSIVE CollapseWhitespace(_)
CollapseWhitespace(t) ==
    IF t = <<>> THEN <<>>
    ELSE IF Head(t) \in WhiteSpace THEN <<" ">> \o CollapseWhitespace(TrimLeft(t))
    ELSE <<Head(t)>> \o CollapseWhitespace(Tail(t))

\* t.replace(/"/g, '') and t.replace(/\uFEFF/g, '')
RemoveAll(t, ch) == FilterSeq(t, Range(t) \ {ch})

\* the header row compared without normalising anything
HeadersMatchExactly(received, expected) == received = expected

\* headersMatch(received, expected)
HeadersMatch(received, expected) ==
    /\ Len(received) = Len(expected)
    /\ \A i \in 1..Len(expected) :
          CollapseWhitespace(ToLowerCase(Trim(received[i])))
             = CollapseWhitespace(ToLowerCase(Trim(expected[i])))

\* expectedHeaders of POST /api/upload-csv
ProductivityHeaders ==
    << <<"E", "m", "p", " ", "N", "o", ".">>,
       <<"N", "a", "m", "e">>,
       <<"M", "o", "n", "t", "h">>,
       <<"P", "r", "o", "d", "u", "c", "t", "i", "v", "e", " ", "H", "o", "u", "r", "s">>,
       <<"H", "o", "u", "r", "s">>,
       <<"P", "r", "o", "d", "u", "c", "t", "i", "v", "i", "t", "y">> >>

\* expectedHeaders of POST /api/upload-contractor-roster
RosterHeaders ==
    << <<"N", "a", "m", "e">>,
       <<"I", "D">>,
       <<"P", "e", "r", "s", "o", "n", "a", "l", " ", "E", "m", "a", "i", "l">>,
       <<"W", "o", "r", "k", " ", "E", "m", "a", "i", "l">>,
       <<"W", "o", "r", "k", " ", "L", "o", "c", "a", "t", "i", "o", "n">>,
       <<"P", "o", "s", "i", "t", "i", "o", "n">>,
       <<"S", "t", "a", "r", "t", " ", "D", "a", "t", "e">>,
       <<"S", "e", "p", "a", "r", "a", "t", "i", "o", "n", " ", "D", "a", "t", "e">>,
       <<"B", "i", "r", "t", "h", "d", "a", "y">> >>

\* parseCSVLine(headerLine).map(h => h.trim().replace(/"/g, '').replace(/\uFEFF/g, '')):
\* on cells without comma or quote parseCSVLine trims each cell
CsvHeaders(cells) ==
    [i \in 1..Len(cells) |-> RemoveAll(RemoveAll(Trim(Trim(cells[i])), "\""), "BOM")]

\* lines[0].split(',').map(h => h.trim().replace(/"/g, '').replace(/\uFEFF/g, ''))
RosterHeadersOf(cells) ==
    [i \in 1..Len(cells) |-> RemoveAll(RemoveAll(Trim(cells[i]), "\""), "BOM")]

\* the header check of POST /api/upload-csv
CsvHeaderAccepted(cells) == HeadersMatch(CsvHeaders(cells), ProductivityHeaders)

\* the header check of POST /api/upload-contractor-roster:
\* expectedHeaders.every((header, index) => headers[index] === header)
RosterHeaderAccepted(cells) ==
    \A index \in 1..Len(RosterHeaders) :
        index <= Len(RosterHeadersOf(cells)) /\ RosterHeadersOf(cells)[index] = RosterHeaders[index]

\* a cell with every space inside it replaced by the given white space
RECURSIVE Respaced(_, _)
Respaced(t, ws) ==
    IF t = <<>> THEN <<>>
    ELSE (IF Head(t) = " " THEN ws ELSE <<Head(t)>>) \o Respaced(Tail(t), ws)

\* the ways a cell of an uploaded header differs from the expected one
CellVariants(t) ==
    { ToLowerCase(t), <<" ">> \o t \o <<" ">>, Respaced(t, <<" ", " ">>), Respaced(t, <<"\t">>),
      <<"X">> }

MaxChanged == 1         \* cells of a header row that differ from the expected ones

\* the header rows with at most k cells changed
RECURSIVE ChangedRows(_, _)
ChangedRows(expected, k) ==
    IF k = 0 THEN { expected }
    ELSE LET less == ChangedRows(expected, k - 1)
         IN  less \cup UNION { { [r EXCEPT ![i] = v] : r \in less, v \in CellVariants(expected[i]) } :
                                  i \in 1..Len(expected) }

\* a byte-order mark in front of the line
WithBom(r) == [r EXCEPT ![1] = <<"BOM">> \o @]

\* the header rows uploaded in the model: cells changed, a column missing, a column or an
\* empty column too many, each with and without a byte-order mark in front
HeaderRows ==
    LET changed == ChangedRows(ProductivityHeaders, MaxChanged)
                      \cup ChangedRows(RosterHeaders, MaxChanged)
        resized == changed
                      \cup { SubSeq(h, 1, Len(h) - 1) : h \in { ProductivityHeaders, RosterHeaders } }
                      \cup { Append(h, x) : h \in { ProductivityHeaders, RosterHeaders },
                                            x \in { <<"X">>, <<>> } }
    IN  resized \cup { WithBom(r) : r \in resized }

\* POST /api/upload-csv decides on the header row
CsvHeaderCheck ==
    /\ result.op = "none"
    /\ result' = Applied("POST /api/upload-csv", result.input, CsvHeaderAccepted(result.input))
    /\ TextFrame

\* POST /api/upload-contractor-roster decides on the header row
RosterHeaderCheck ==
    /\ result.op = "none"
    /\ result' = Applied("POST /api/upload-contractor-roster", result.input,
                         RosterHeaderAccepted(result.input))
    /\ TextFrame

InitHeader == TextInit(HeaderRows)

NextHeader == CsvHeaderCheck \/ RosterHeaderCheck

SpecHeader == InitHeader /\ [][NextHeader]_vars

\* the header row without a byte-order mark in front of the line
WithoutLeadingBom(cells) ==
    IF cells # <<>> /\ cells[1] # <<>> /\ cells[1][1] = "BOM"
    THEN [cells EXCEPT ![1] = Tail(@)]
    ELSE cells

\* the rule of acceptance: as many columns as expected, each equal to the expected one at
\* its place after trimming, lower-casing and collapsing the runs of white space
AcceptedByRule(cells, expected) ==
    /\ Len(cells) = Len(expected)
    /\ \A i \in 1..Len(expected) :
          CollapseWhitespace(ToLowerCase(Trim(WithoutLeadingBom(cells)[i])))
             = CollapseWhitespace(ToLowerCase(Trim(expected[i])))

\* C20: in both upload modes the header row is accepted exactly when it has as many columns as
\* the expected header list and each column equals the expected one at the same place after
\* trimming, lower-casing and collapsing runs of white space to one space; a byte-order mark
\* in front of the header line changes nothing
C20_HeaderAcceptance ==
    /\ result.op = "POST /api/upload-csv"
          => (result.output <=> AcceptedByRule(result.input, ProductivityHeaders))
    /\ result.op = "POST /api/upload-contractor-roster"
          => (result.output <=> AcceptedByRule(result.input, RosterHeaders))

(***************************************************************************)
(* The cells of a productivity row (SpecRow): month, hours, productivity   *)
(***************************************************************************)
\* a number as JavaScript holds it, exactly: NaN, or the fraction num / den in lowest terms
RECURSIVE Gcd(_, _)
Gcd(a, b) == IF b = 0 THEN a ELSE Gcd(b, a % b)

Abs(n) == IF n < 0 THEN 0 - n ELSE n

NaNRatio == [nan |-> TRUE, num |-> 0, den |-> 1]

Ratio(n, d) ==
    LET g == Gcd(Abs(n), d)
    IN  [nan |-> FALSE, num |-> n \div g, den |-> d \div g]

Zero == Ratio(0, 1)

\* x || 0
OrZero(x) == IF x.nan \/ x.num = 0 THEN Zero ELSE x

\* x * 100
TimesHundred(x) == IF x.nan THEN NaNRatio ELSE Ratio(100 * x.num, x.den)

RECURSIVE Pow10(_)
Pow10(k) == IF k = 0 THEN 1 ELSE 10 * Pow10(k - 1)

\* the length of the leading run of digits of s
RECURSIVE DigitRunLen(_)
DigitRunLen(s) == IF s = <<>> \/ ~IsDigit(Head(s)) THEN 0 ELSE 1 + DigitRunLen(Tail(s))

\* parseFloat: leading white space, an optional sign, digits with an optional fraction, the
\* rest ignored; NaN without a digit (the texts of the model hold no exponent and no
\* "Infinity")
ParseFloat(str) ==
    LET s == TrimLeft(str)
        signed == s # <<>> /\ Head(s) \in {"-", "+"}
        body == IF signed THEN Tail(s) ELSE s
        n == DigitRunLen(body)
        rest == SubSeq(body, n + 1, Len(body))
        fraction == IF rest # <<>> /\ Head(rest) = "." THEN Tail(rest) ELSE <<>>
        f == DigitRunLen(fraction)
        sign == IF signed /\ Head(s) = "-" THEN 0 - 1 ELSE 1
    IN  IF n = 0 /\ f = 0 THEN NaNRatio
        ELSE Ratio(sign * (DigitsPrefix(body, 0) * Pow10(f) + DigitsPrefix(fraction, 0)),
                   Pow10(f))

\* parseInt as a number of this kind
ParseIntRatio(str) == IF ParseInt(str).nan THEN NaNRatio ELSE Ratio(ParseInt(str).val, 1)

\* String.prototype.split(sep) for a one-character separator
RECURSIVE Split(_, _)
Split(s, sep) ==
    IF \A i \in 1..Len(s) : s[i] # sep THEN <<s>>
    ELSE LET k == CHOOSE i \in 1..Len(s) : s[i] = sep /\ \A j \in 1..(i - 1) : s[j] # sep
         IN  <<SubSeq(s, 1, k - 1)>> \o Split(SubSeq(s, k + 1, Len(s)), sep)

\* h + (m / 60) + (s / 3600)
HoursMinutesSeconds(h, m, s) ==
    IF h.nan \/ m.nan \/ s.nan THEN NaNRatio
    ELSE Ratio(3600 * h.num + 60 * m.num + s.num, 3600)

\* \w of a regular expression
WordChars == Letters \cup { "0", "1", "2", "3", "4", "5", "6", "7", "8", "9", "_" }

\* month.match(/^\d{2}-\w{3}$/)
LooksLikeDayMonth(month) ==
    /\ Len(month) = 6
    /\ \A i \in 1..2 : IsDigit(month[i])
    /\ month[3] = "-"
    /\ \A i \in 4..6 : month[i] \in WordChars

\* the month of a row: "25-Aug" is turned into "Aug-25"
FixMonth(month) ==
    IF LooksLikeDayMonth(month)
    THEN Split(month, "-")[2] \o <<"-">> \o Split(month, "-")[1]
    ELSE month

\* productiveHoursStr.includes(':')
HasColon(str) == \E i \in 1..Len(str) : str[i] = ":"

\* an element of an array read by destructuring: undefined past its end
PartOrUndefined(parts, i) == IF i <= Len(parts) THEN ParseIntRatio(parts[i]) ELSE NaNRatio

\* the productive hours of a row as POST /api/upload-csv reads them
RouteProductiveHours(productiveHoursStr) ==
    IF productiveHoursStr # <<>> /\ Trim(productiveHoursStr) # <<>>
          /\ HasColon(productiveHoursStr)
    THEN LET parts == Split(productiveHoursStr, ":")
         IN  HoursMinutesSeconds(PartOrUndefined(parts, 1), PartOrUndefined(parts, 2),
                                 PartOrUndefined(parts, 3))
    ELSE IF productiveHoursStr # <<>> /\ Trim(productiveHoursStr) # <<>>
    THEN OrZero(ParseFloat(productiveHoursStr))
    ELSE Zero

\* CSVParser.parseProductiveHours
ParseProductiveHours(productiveHoursStr) ==
    IF HasColon(productiveHoursStr)
    THEN LET parts == Split(productiveHoursStr, ":")
         IN  HoursMinutesSeconds(
                 OrZero(ParseIntRatio(parts[1])),
                 OrZero(ParseIntRatio(parts[2])),
                 IF Len(parts) > 2 THEN OrZero(ParseIntRatio(parts[3])) ELSE Zero)
    ELSE IF ParseFloat(productiveHoursStr).nan THEN Zero
    ELSE ParseFloat(productiveHoursStr)

\* str.replace('%', ''): the first % removed
RECURSIVE RemoveFirst(_, _)
RemoveFirst(s, ch) ==
    IF s = <<>> THEN <<>>
    ELSE IF Head(s) = ch THEN Tail(s)
    ELSE <<Head(s)>> \o RemoveFirst(Tail(s), ch)

\* a reading of the productivity that takes every value for a percentage
RouteProductivityUnscaled(cell) ==
    IF Trim(RemoveFirst(cell, "%")) = <<>> THEN Zero
    ELSE ParseFloat(Trim(RemoveFirst(cell, "%")))

\* the productivity of a row as POST /api/upload-csv reads it
RouteProductivity(cell) ==
    LET productivityStr == Trim(RemoveFirst(cell, "%"))
        productivityValue == ParseFloat(productivityStr)
    IN  IF productivityStr = <<>> THEN Zero
        ELSE IF ~productivityValue.nan /\ productivityValue.num > 0
                   /\ productivityValue.num <= productivityValue.den
        THEN TimesHundred(productivityValue)
        ELSE productivityValue

\* insertProductivityDataSchema.parse on a numeric field: NaN is not a number
SchemaAccepts(x) == ~x.nan

\* a figure read from a cell, and whether the row goes on to be upserted with it
Figure(x) == [value |-> x, accepted |-> SchemaAccepts(x)]

\* the cells of the model: the texts around the day-month shape, the short texts of a
\* numeric cell, and the samples of the upload format
MonthTokens ==
    { h \o sep \o t : h \in Texts({ "2", "A" }, MaxFieldLen), sep \in { <<>>, <<"-">> },
                      t \in Texts({ "A", "1", "_", "-" }, MaxFieldLen) }

NumberTexts == Texts({ "0", "1", "5", ".", ":", "%", " ", "-", "a" }, MaxFieldLen)

SampleCells ==
    { Aug25, <<"2", "5", "-", "A", "u", "g">>,
      <<"1", "1", "4", ":", "3", "9", ":", "0", "0">>, <<"1", "2", ":", "3", "0">>,
      <<"1", ":", "3", "0", ":", "a">>, <<"1", "1", "4", ".", "6", "5">>,
      <<"0", ".", "9", "5", "4", "7">>, <<"9", "5", ".", "4", "7">>,
      <<"9", "5", ".", "4", "7", "%">>, <<"9", "5", ".", "4", "7", " ", "%">> }

Cells == MonthTokens \cup NumberTexts \cup SampleCells

\* the row loop takes the month of a row
FixMonthCall ==
    /\ result.op = "none"
    /\ result' = Applied("month", result.input, FixMonth(result.input))
    /\ TextFrame

\* the row loop reads the productive hours of a row
RouteProductiveHoursCall ==
    /\ result.op = "none"
    /\ result' = Applied("productiveHours", result.input,
                         Figure(RouteProductiveHours(result.input)))
    /\ TextFrame

\* the row loop reads the productivity of a row
RouteProductivityCall ==
    /\ result.op = "none"
    /\ result' = Applied("productivity", result.input, Figure(RouteProductivity(result.input)))
    /\ TextFrame

\* the validator reads the productive hours of a row
ParseProductiveHoursCall ==
    /\ result.op = "none"
    /\ result' = Applied("parseProductiveHours", result.input,
                         ParseProductiveHours(result.input))
    /\ TextFrame

InitRow == TextInit(Cells)

NextRow ==
    \/ FixMonthCall
    \/ RouteProductiveHoursCall
    \/ RouteProductivityCall
    \/ ParseProductiveHoursCall

SpecRow == InitRow /\ [][NextRow]_vars

\* two digits, a dash and three letters
IsDayMonth(t) ==
    /\ Len(t) = 6
    /\ IsDigit(t[1]) /\ IsDigit(t[2])
    /\ t[3] = "-"
    /\ t[4] \in Letters /\ t[5] \in Letters /\ t[6] \in Letters

\* C21: the month token of a productivity row is rewritten from DD-Mon to Mon-DD exactly when
\* it consists of two digits, a dash and three letters; every other token is stored unchanged
C21_MonthRewrite ==
    result.op = "month" =>
        result.output = IF IsDayMonth(result.input)
                        THEN SubSeq(result.input, 4, 6) \o <<"-">> \o SubSeq(result.input, 1, 2)
                        ELSE result.input

\* a whole text that writes a decimal number: an optional sign, digits, an optional fraction
IsDecimal(t) ==
    LET signed == t # <<>> /\ Head(t) \in {"-", "+"}
        body == IF signed THEN Tail(t) ELSE t
        n == DigitRunLen(body)
        rest == SubSeq(body, n + 1, Len(body))
    IN  \/ n > 0 /\ rest = <<>>
        \/ /\ rest # <<>> /\ Head(rest) = "."
           /\ DigitRunLen(Tail(rest)) = Len(rest) - 1
           /\ n + Len(rest) - 1 > 0

\* a cell without the white space around it and without a % at its end
WithoutPercent(cell) ==
    LET t == Trim(cell)
    IN  IF t # <<>> /\ t[Len(t)] = "%" THEN Trim(SubSeq(t, 1, Len(t) - 1)) ELSE t

IsHMS(t) ==
    /\ Len(Split(t, ":")) = 3
    /\ \A i \in 1..3 : LET part == Split(t, ":")[i]
                       IN  part # <<>> /\ DigitRunLen(part) = Len(part)

\* C23: a Productive Hours value containing ':' is decoded as H + M/60 + S/3600, any other
\* value is parsed as a decimal, and an empty or unparseable value yields 0; whatever the
\* value, the row is still accepted
C23_ProductiveHoursDecoding ==
    result.op = "productiveHours" =>
        LET t == result.input
            part(i) == ParseInt(Split(t, ":")[i]).val
        IN  /\ result.output.accepted
            /\ IsHMS(t) => result.output.value
                              = Ratio(3600 * part(1) + 60 * part(2) + part(3), 3600)
            /\ ~HasColon(t) /\ IsDecimal(Trim(t)) => result.output.value = ParseFloat(Trim(t))
            /\ ~HasColon(t) /\ ParseFloat(t).nan => result.output.value = Zero

\* C24: CSVParser.parseProductiveHours and the upload route's inline decoding of the
\* productive hours are the same rule: for every text they give the same number of hours
C24_SameHoursRule ==
    result.op \in { "productiveHours", "parseProductiveHours" } =>
        RouteProductiveHours(result.input) = ParseProductiveHours(result.input)

(***************************************************************************)
(* CSVParser.validateEmployeeData (SpecValidate)                           *)
(***************************************************************************)
\* validMonths
ValidMonths ==
    { <<"J", "a", "n">>, <<"F", "e", "b">>, <<"M", "a", "r">>,
      <<"A", "p", "r">>, <<"M", "a", "y">>, <<"J", "u", "n">>,
      <<"J", "u", "l">>, <<"A", "u", "g">>, <<"S", "e", "p">>,
      <<"O", "c", "t">>, <<"N", "o", "v">>, <<"D", "e", "c">> }

\* CSVRow, the name apart: hours and productivity are whole numbers in the model
CsvRow(empNo, month, productiveHours, hours, productivity) ==
    [empNo |-> empNo, month |-> month, productiveHours |-> productiveHours, hours |-> hours,
     productivity |-> productivity]

\* errors.push(`Row ${rowNum}: ...`)
Message(rowNum, rule) == [row |-> rowNum, rule |-> rule]

\* x > n for a fraction x and a whole number n
Exceeds(x, n) == x.num > n * x.den

\* a validator that reports the first broken rule of a row only
FirstRowMessage(row, rowNum) ==
    IF row.empNo < 1 \/ row.empNo > 999 THEN <<Message(rowNum, "employee number")>>
    ELSE IF Split(row.month, "-")[1] \notin ValidMonths
    THEN <<Message(rowNum, "month abbreviation")>>
    ELSE IF row.productivity < 0 \/ row.productivity > 100
    THEN <<Message(rowNum, "productivity")>>
    ELSE IF row.hours < 0 THEN <<Message(rowNum, "hours")>>
    ELSE IF Exceeds(ParseProductiveHours(row.productiveHours), row.hours)
    THEN <<Message(rowNum, "productive hours")>>
    ELSE <<>>

\* the body of data.forEach((row, index) => ...) with rowNum = index + 2
RowMessages(row, rowNum) ==
    (IF row.empNo < 1 \/ row.empNo > 999 THEN <<Message(rowNum, "employee number")>> ELSE <<>>)
    \o (IF Split(row.month, "-")[1] \notin ValidMonths
        THEN <<Message(rowNum, "month abbreviation")>> ELSE <<>>)
    \o (IF row.productivity < 0 \/ row.productivity > 100
        THEN <<Message(rowNum, "productivity")>> ELSE <<>>)
    \o (IF row.hours < 0 THEN <<Message(rowNum, "hours")>> ELSE <<>>)
    \o (IF Exceeds(ParseProductiveHours(row.productiveHours), row.hours)
        THEN <<Message(rowNum, "productive hours")>> ELSE <<>>)

\* the messages of data[1..n]
RECURSIVE MessagesUpTo(_, _)
MessagesUpTo(data, n) ==
    IF n = 0 THEN <<>> ELSE MessagesUpTo(data, n - 1) \o RowMessages(data[n], n + 1)

\* CSVParser.validateEmployeeData(data): the errors returned, and the rows as the call
\* leaves them (no statement of the function assigns to a row)
ValidateEmployeeData(data) == [errors |-> MessagesUpTo(data, Len(data)), data |-> data]

MaxRows == 2            \* rows handed to the validator at once

\* the rows of the model: every choice of kept and broken rules, and the values at the edges
\* of the rules
ValidatorRows ==
    LET fine == <<"9", "9">>
        over == <<"1", "1", "4", ":", "3", "9", ":", "0", "0">>
    IN  { CsvRow(e, m, ph, h, p) :
            e \in { 1, 1000 }, m \in { Aug25, <<"F", "o", "o", "-", "2", "5">> },
            ph \in { fine, over }, h \in { 100, 0 - 1 }, p \in { 95, 101 } }
        \cup { CsvRow(e, Aug25, fine, 100, 95) : e \in { 0, 999 } }
        \cup { CsvRow(1, Aug25, fine, 100, p) : p \in { 0 - 1, 0, 100 } }
        \cup { CsvRow(1, Aug25, ph, 100, 95) : ph \in { <<"1", "0", "0">>, <<"1", "0", "1">> } }
        \cup { CsvRow(1, <<"a", "u", "g", "-", "2", "5">>, fine, 100, 95) }

RowLists == UNION { [1..n -> ValidatorRows] : n \in 0..MaxRows }

\* the validator is run on the parsed rows
ValidateEmployeeDataCall ==
    /\ result.op = "none"
    /\ result' = Applied("validateEmployeeData", result.input,
                         ValidateEmployeeData(result.input))
    /\ TextFrame

InitValidate == TextInit(RowLists)

NextValidate == ValidateEmployeeDataCall

SpecValidate == InitValidate /\ [][NextValidate]_vars

Rules == { "employee number", "month abbreviation", "productivity", "hours", "productive hours" }

\* whether a row breaks a rule
Breaks(row, rule) ==
    CASE rule = "employee number" -> ~(row.empNo \in 1..999)
      [] rule = "month abbreviation" -> SubSeq(row.month, 1, 3) \notin ValidMonths
      [] rule = "productivity" -> ~(row.productivity \in 0..100)
      [] rule = "hours" -> row.hours < 0
      [] rule = "productive hours" ->
            Exceeds(ParseProductiveHours(row.productiveHours), row.hours)

\* C25: validateEmployeeData returns exactly one message per row per broken rule (employee
\* number outside 1..999, month prefix not one of the twelve abbreviations, productivity
\* outside 0..100, negative hours, productive hours above total hours), goes on through all
\* rows after the first error, and leaves its input rows as they were
C25_OneMessagePerBrokenRule ==
    result.op = "validateEmployeeData" =>
        LET data == result.input
            errors == result.output.errors
        IN  /\ \A k \in 1..Len(data), rule \in Rules :
                  Cardinality({ i \in 1..Len(errors) : errors[i] = Message(k + 1, rule) })
                     = IF Breaks(data[k], rule) THEN 1 ELSE 0
            /\ \A i \in 1..Len(errors) :
                  errors[i].row \in 2..(Len(data) + 1) /\ errors[i].rule \in Rules
            /\ result.output.data = data

\* two rows were validated, the first breaking two rules and the second one more
C25_Witness ==
    /\ result.op = "validateEmployeeData"
    /\ Len(result.input) = 2
    /\ Cardinality({ rule \in Rules : Breaks(result.input[1], rule) }) >= 2
    /\ Cardinality({ rule \in Rules : Breaks(result.input[2], rule) }) = 1
    /\ Len(result.output.errors) >= 3

(***************************************************************************)
(* Double-precision arithmetic, as far as the dashboard's percentage goes  *)
(***************************************************************************)
\* a positive double is bits * 2^exp, bits a sequence of MantissaBits binary digits, the
\* first of them 1
MantissaBits == 53

Double(bits, exp) == [bits |-> bits, exp |-> exp]

Zeros(n) == [i \in 1..n |-> 0]

\* the binary digits of r / c after the point, r < c: n of them, and what is left over
RECURSIVE DivBits(_, _, _)
DivBits(r, c, n) ==
    IF n = 0 THEN <<>>
    ELSE IF 2 * r >= c THEN <<1>> \o DivBits(2 * r - c, c, n - 1)
    ELSE <<0>> \o DivBits(2 * r, c, n - 1)

RECURSIVE DivRest(_, _, _)
DivRest(r, c, n) ==
    IF n = 0 THEN r
    ELSE IF 2 * r >= c THEN DivRest(2 * r - c, c, n - 1)
    ELSE DivRest(2 * r, c, n - 1)

\* the zeros between the point and the first 1 of r / c
RECURSIVE LeadingZeros(_, _)
LeadingZeros(r, c) == IF 2 * r >= c THEN 0 ELSE 1 + LeadingZeros(2 * r, c)

RECURSIVE TimesPow2(_, _)
TimesPow2(r, n) == IF n = 0 THEN r ELSE TimesPow2(2 * r, n - 1)

\* x + y for two numbers of i binary digits each, with the carry into the last digit
RECURSIVE AddFrom(_, _, _, _)
AddFrom(x, y, i, carry) ==
    IF i = 0 THEN (IF carry = 1 THEN <<1>> ELSE <<>>)
    ELSE IF x[i] + y[i] + carry >= 2
    THEN AddFrom(x, y, i - 1, 1) \o <<x[i] + y[i] + carry - 2>>
    ELSE AddFrom(x, y, i - 1, 0) \o <<x[i] + y[i] + carry>>

Pad(x, n) == Zeros(n - Len(x)) \o x

AddBits(x, y) ==
    LET n == IF Len(x) > Len(y) THEN Len(x) ELSE Len(y)
    IN  AddFrom(Pad(x, n), Pad(y, n), n, 0)

\* round to nearest, ties to even: digits (at least MantissaBits of them, the first 1) times
\* 2^exp, with something more below the last digit when sticky
RoundToNearestEven(digits, exp, sticky) ==
    LET kept == SubSeq(digits, 1, MantissaBits)
        dropped == Len(digits) - MantissaBits
        guard == IF dropped > 0 THEN digits[MantissaBits + 1] ELSE 0
        below == sticky \/ \E i \in (MantissaBits + 2)..Len(digits) : digits[i] = 1
        up == guard = 1 /\ (below \/ kept[MantissaBits] = 1)
        sum == IF up THEN AddBits(kept, <<1>>) ELSE kept
    IN  IF Len(sum) > MantissaBits
        THEN Double(SubSeq(sum, 1, MantissaBits), exp + dropped + 1)
        ELSE Double(sum, exp + dropped)

\* a / c in double precision, 0 < a < c
DoubleDivide(a, c) ==
    LET z == LeadingZeros(a, c)
        r == TimesPow2(a, z)
    IN  RoundToNearestEven(DivBits(r, c, MantissaBits + 1),
                           0 - (z + MantissaBits + 1),
                           DivRest(r, c, MantissaBits + 1) # 0)

\* x * 100 in double precision: 100 = 64 + 32 + 4
DoubleTimesHundred(x) ==
    LET product == AddBits(AddBits(x.bits \o Zeros(6), x.bits \o Zeros(5)), x.bits \o Zeros(2))
    IN  RoundToNearestEven(product, x.exp, FALSE)

RECURSIVE BitsValue(_)
BitsValue(bits) ==
    IF bits = <<>> THEN 0 ELSE 2 * BitsValue(SubSeq(bits, 1, Len(bits) - 1)) + bits[Len(bits)]

\* Math.round(x) for a double 0 < x < 2^30: the nearest whole number, a half going up
MathRound(x) ==
    LET whole == MantissaBits + x.exp          \* binary digits before the point
    IN  IF whole < 0 THEN 0
        ELSE BitsValue(SubSeq(x.bits, 1, whole)) + x.bits[whole + 1]

\* Math.round(contractorsWithProductivity.length > 0
\*               ? (aboveThreshold / contractorsWithProductivity.length) * 100 : 0)
ThresholdPercentage(aboveThreshold, withProductivity) ==
    IF withProductivity = 0 \/ aboveThreshold = 0 THEN 0
    ELSE IF aboveThreshold = withProductivity THEN 100
    ELSE MathRound(DoubleTimesHundred(DoubleDivide(aboveThreshold, withProductivity)))

(***************************************************************************)
(* The dashboard's above-threshold percentage (SpecPercent)                *)
(***************************************************************************)
\* contractorsWithProductivity of GET /api/dashboard/summary
ContractorsWithProductivity(cs, pd) ==
    { c \in cs : /\ c.status = "active"
                 /\ MonthProductivity(pd, c) # <<>>
                 /\ MonthProductivity(pd, c)[1].productiveHours > 0 }

\* the contractors counted in aboveThreshold
AboveThreshold(cs, pd) ==
    { c \in ContractorsWithProductivity(cs, pd) :
        MonthProductivity(pd, c)[1].productiveHours >= DashboardMedium(c.contractorType) }

\* the aboveThresholdPercentage field of the summary
AboveThresholdPercentage(cs, pd) ==
    ThresholdPercentage(Cardinality(AboveThreshold(cs, pd)),
                        Cardinality(ContractorsWithProductivity(cs, pd)))

\* GET /api/dashboard/summary: the aboveThresholdPercentage field
DashboardPercentage ==
    /\ result.op = "none"
    /\ result' = Answer("dashboard.aboveThresholdPercentage", CurrentMonth, 0, <<>>,
                        AboveThresholdPercentage(contractors, productivityData))
    /\ QueryFrame

MaxHeadcount == 40      \* active Full Time contractors with hours in the current month

\* a team member and the record of the current month
Member(id, status, contractorType) ==
    [id |-> id, name |-> NameOf(id), status |-> status, contractorType |-> contractorType]

HoursRecord(id, hours) ==
    LET r == CHOOSE x \in Readings : x.productiveHours = hours
        v == Row(InsertItem(id, CurrentMonth, r), 0)
    IN  Entry(KeyOf(v), v)

\* the one contractor more of a team: none, an archived one with 100 h, an active one with a
\* 0-hour record, an active Part Time one with 60 h, an active one without a record
Extras == { "none", "archived", "idle", "part time", "no record" }

ExtraMember(id, extra) ==
    CASE extra = "none" -> {}
      [] extra = "archived" -> { Member(id, "archived", FullTime) }
      [] extra = "part time" -> { Member(id, "active", PartTime) }
      [] OTHER -> { Member(id, "active", FullTime) }

ExtraRecord(id, extra) ==
    CASE extra = "archived" -> <<HoursRecord(id, 1000)>>
      [] extra = "idle" -> <<HoursRecord(id, 0)>>
      [] extra = "part time" -> <<HoursRecord(id, 600)>>
      [] OTHER -> <<>>

\* a team of c active Full Time contractors with hours in the current month, `above` of them
\* with 100 h and the others with 40 h, and possibly one contractor more
InitPercent ==
    /\ NoClients
    /\ backend \in Backends
    /\ \E c \in 0..MaxHeadcount, above \in 0..MaxHeadcount, extra \in Extras :
          /\ above <= c
          /\ contractors = { Member(id, "active", FullTime) : id \in 1..c }
                              \cup ExtraMember(c + 1, extra)
          /\ productivityData = [id \in 1..c |-> HoursRecord(id, IF id <= above THEN 1000 ELSE 400)]
                                   \o ExtraRecord(c + 1, extra)
    /\ now = 0
    /\ isAdmin = [s \in Sessions |-> FALSE]
    /\ response = NoResponse
    /\ lastOp = NoOp
    /\ result = NoResult
    /\ uploads = <<>>

NextPercent == DashboardPercentage

SpecPercent == InitPercent /\ [][NextPercent]_vars

\* the medium threshold of a contractor type, in tenths of an hour
MediumOf(contractorType) == IF contractorType = PartTime THEN 500 ELSE 1000

\* the active contractors with a record for the current month whose productiveHours is above 0
Counted ==
    { c \in contractors :
        /\ c.status = "active"
        /\ \E i \in 1..Len(productivityData) :
              /\ productivityData[i].val.contractorId = c.id
              /\ productivityData[i].val.month = CurrentMonth
              /\ productivityData[i].val.productiveHours > 0 }

\* those of them whose productiveHours is at least the medium threshold of their type
CountedAbove ==
    { c \in Counted :
        \E i \in 1..Len(productivityData) :
            /\ productivityData[i].val.contractorId = c.id
            /\ productivityData[i].val.month = CurrentMonth
            /\ productivityData[i].val.productiveHours >= MediumOf(c.contractorType) }

\* C26: the dashboard's aboveThresholdPercentage equals round(100 * A / C), C the number of
\* active contractors with a record for the current month with productiveHours > 0 and A the
\* number of those at or above the medium threshold of their type; it is 0 when C = 0 and
\* lies in 0..100; archived contractors and 0-hour records count in neither A nor C
C26_AboveThresholdPercentage ==
    result.op = "dashboard.aboveThresholdPercentage" =>
        LET A == Cardinality(CountedAbove)
            C == Cardinality(Counted)
        IN  /\ result.value \in 0..100
            /\ result.value = IF C = 0 THEN 0 ELSE (200 * A + C) \div (2 * C)

(***************************************************************************)
(* The threshold lookups side by side (SpecThreshold)                      *)
(***************************************************************************)
\* hours are tenths of an hour in the stores; the thresholds of this section are hundredths
\* of an hour, the unit in which all of them are whole
Thresholds(high, medium, low) == [high |-> high, medium |-> medium, low |-> low]

\* getThresholds of GET /api/dashboard/summary
DashboardThresholds(contractorType) ==
    IF contractorType = PartTime THEN Thresholds(8670, 5000, 0)
    ELSE Thresholds(17330, 10000, 0)

\* getThresholds of the Productive Hours page
PageThresholds(contractorType) ==
    IF contractorType = PartTime THEN Thresholds(8670, 5000, 0)
    ELSE Thresholds(17330, 12998, 0)

\* getPerformanceClass of the Productive Hours page, hours in tenths
GetPerformanceClass(hours, contractorType) ==
    IF 10 * hours > PageThresholds(contractorType).high THEN "performance-high"
    ELSE IF 10 * hours >= PageThresholds(contractorType).medium THEN "performance-medium"
    ELSE "performance-low"

\* a contractor of a type, and a record of the current month with these hours
Typed(contractorType) == Member(1, "active", contractorType)

Worked(hours) ==
    Row([contractorId |-> 1, month |-> CurrentMonth, productiveHours |-> hours,
         totalHours |-> hours, productivity |-> 100], 0)

\* what a lookup knows of the thresholds, and on which side of medium it puts the hours
Lookup(thresholds, belowMedium) == [thresholds |-> thresholds, belowMedium |-> belowMedium]

MaxWholeHours == 180    \* the hours of the model are 1 .. MaxWholeHours whole hours

TypedHours ==
    { [contractorType |-> t, hours |-> 10 * h] : t \in { FullTime, PartTime },
                                                 h \in 1..MaxWholeHours }

\* MemStorage.getUnderPerformers meets the record
MemUnderPerformerLookup ==
    /\ result.op = "none"
    /\ result' = Applied("MemStorage.getUnderPerformers", result.input,
                     Lookup([medium |-> 10 * MemHourThreshold(result.input.contractorType)],
                            MemIsUnderPerformer({ Typed(result.input.contractorType) },
                                                Worked(result.input.hours))))
    /\ TextFrame

\* DatabaseStorage.getUnderPerformers meets the record
DbUnderPerformerLookup ==
    /\ result.op = "none"
    /\ result' = Applied("DatabaseStorage.getUnderPerformers", result.input,
                     Lookup([medium |-> IF result.input.contractorType = PartTime
                                        THEN 10 * PartTimeMedium ELSE 10 * FullTimeMedium],
                            DbIsUnderPerformer(Typed(result.input.contractorType),
                                               Worked(result.input.hours))))
    /\ TextFrame

\* GET /api/dashboard/summary meets the record
DashboardLookup ==
    /\ result.op = "none"
    /\ result' = Applied("GET /api/dashboard/summary", result.input,
                     Lookup(DashboardThresholds(result.input.contractorType),
                            DashboardIsUnderPerformer(
                                <<Entry(KeyOf(Worked(result.input.hours)),
                                        Worked(result.input.hours))>>,
                                Typed(result.input.contractorType))))
    /\ TextFrame

\* the Productive Hours page colours the record
PageLookup ==
    /\ result.op = "none"
    /\ result' = Applied("ProductiveHours", result.input,
                     Lookup(PageThresholds(result.input.contractorType),
                            GetPerformanceClass(result.input.hours,
                                                result.input.contractorType)
                               = "performance-low"))
    /\ TextFrame

InitThreshold == TextInit(TypedHours)

NextThreshold ==
    \/ MemUnderPerformerLookup
    \/ DbUnderPerformerLookup
    \/ DashboardLookup
    \/ PageLookup

SpecThreshold == InitThreshold /\ [][NextThreshold]_vars

\* low / medium / high of a type as stated: 0 / 100 / 173.3 h and 0 / 50 / 86.7 h
StatedThresholds(contractorType) ==
    IF contractorType = PartTime THEN Thresholds(8670, 5000, 0)
    ELSE Thresholds(17330, 10000, 0)

\* C27: every threshold lookup returns low/medium/high = 0/100/173.3 hours for Full Time and
\* 0/50/86.7 hours for Part Time, so that a (contractor type, hours) pair is put on the same
\* side of medium by the under-performer query, the dashboard summary and the Productive
\* Hours page
C27_SameThresholds ==
    result.op # "none" =>
        LET stated == StatedThresholds(result.input.contractorType)
            found == result.output.thresholds
        IN  /\ \A k \in DOMAIN found : found[k] = stated[k]
            /\ result.output.belowMedium <=> 10 * result.input.hours < stated.medium


(***************************************************************************)
(* The useExport hook (SpecExport)                                         *)
(*                                                                         *)
(* src/client/src/hooks/use-export.ts.  exportHook.isExporting is the      *)
(* state cell of useState; exportHook.rendered is the value of isExporting *)
(* that the last render bound into the exportData it returned; calls are   *)
(* the exportData calls that have passed the guard and not yet reached     *)
(* their finally block, each with the await it is suspended at.            *)
(* setIsExporting schedules a render; the render is a step of its own.     *)
(***************************************************************************)
MaxCalls == 3           \* exportData calls running at once in the model

\* config.endpoint of the Productive Hours page: one per selected month
ExportEndpoints == { "/api/export/productivity/Aug-25", "/api/export/productivity/Sep-25" }

ExportCall(endpoint, pc) == [endpoint |-> endpoint, pc |-> pc]

Without(seq, i) == SubSeq(seq, 1, i - 1) \o SubSeq(seq, i + 1, Len(seq))

ExportFrame ==
    UNCHANGED <<loginAttempts, logins, fullWindows, backend, contractors, productivityData, now,
                isAdmin, response, lastOp, uploads>>

\* the component renders again: useExport() runs and returns a new exportData
Render ==
    /\ exportHook.rendered # exportHook.isExporting
    /\ exportHook' = [exportHook EXCEPT !.rendered = exportHook.isExporting]
    /\ UNCHANGED result
    /\ ExportFrame

\* exportData(config) of the last render, up to its first await
ExportData(endpoint) ==
    /\ Len(exportHook.calls) < MaxCalls
    /\ IF exportHook.rendered
       THEN /\ exportHook' = exportHook
            /\ result' = Applied("exportData", endpoint, "returned")
       ELSE /\ exportHook' = [exportHook EXCEPT !.isExporting = TRUE,
                                                !.calls = Append(@, ExportCall(endpoint, "fetch"))]
            /\ result' = Applied("exportData", endpoint, "fetch")
    /\ ExportFrame

\* the call's export is over: toast, then finally { setIsExporting(false) }
ExportSettled(i, title) ==
    /\ exportHook' = [exportHook EXCEPT !.isExporting = FALSE, !.calls = Without(@, i)]
    /\ result' = Applied("toast", exportHook.calls[i].endpoint, title)

\* await fetch(...) settles: a response that is ok, or a rejection / !response.ok
FetchSettles(i, ok) ==
    /\ i \in 1..Len(exportHook.calls)
    /\ exportHook.calls[i].pc = "fetch"
    /\ IF ok
       THEN /\ exportHook' = [exportHook EXCEPT !.calls[i].pc = "text"]
            /\ UNCHANGED result
       ELSE ExportSettled(i, "Export Failed")
    /\ ExportFrame

\* await response.text() settles: downloadCsv and the success toast, or the catch block
TextSettles(i, ok) ==
    /\ i \in 1..Len(exportHook.calls)
    /\ exportHook.calls[i].pc = "text"
    /\ ExportSettled(i, IF ok THEN "Export Successful" ELSE "Export Failed")
    /\ ExportFrame

InitExport == TextInit({<<>>})

NextExport ==
    \/ Render
    \/ \E endpoint \in ExportEndpoints : ExportData(endpoint)
    \/ \E i \in 1..MaxCalls, ok \in BOOLEAN : FetchSettles(i, ok)
    \/ \E i \in 1..MaxCalls, ok \in BOOLEAN : TextSettles(i, ok)

SpecExport == InitExport /\ [][NextExport]_vars

\* C28: the hook never has two exports in flight at once: while one exportData
\* call has not finished, no other call has issued a fetch.
C28_OneExportInFlight == Len(exportHook.calls) <= 1


(***************************************************************************)
(* The login rate limiter (SpecLogin)                                      *)
(*                                                                         *)
(* checkRateLimit, resetRateLimit and POST /api/auth/login of routes.ts.   *)
(* The handler runs up to `await passwordManager.verifyPassword` in one    *)
(* step and resumes in another, so other requests interleave with the      *)
(* verification.  The clock is in milliseconds and advances by ClockStep   *)
(* at a time.  fullWindows records, for every IP, the reset time of        *)
(* the last window in which MaxLoginAttempts attempts were counted and     *)
(* whether a login from that IP has succeeded since.                       *)
(***************************************************************************)
MaxLoginAttempts == 5
RateLimitWindow == 900000     \* 15 * 60 * 1000 ms
MaxLoginTicks == 2      \* the clock runs 0..MaxLoginTicks steps
MaxPending == 2         \* login requests awaiting verifyPassword at once

\* the clock's step: two thirds of a window, so that the second step passes the reset time
ClockStep == (2 * RateLimitWindow) \div 3

\* what passwordManager.verifyPassword(password) will do with the request's password
Passwords == {"valid", "invalid", "throws"}

HasAttempts(attempts, ip) == attempts[ip].count > 0

LoginOf(ip, s, password) == [ip |-> ip, session |-> s, password |-> password]

\* a limiter that lets one attempt too many through
CheckRateLimitLate(attempts, ip, t) ==
    IF ~HasAttempts(attempts, ip) \/ t > attempts[ip].resetTime
    THEN [allowed |-> TRUE,
          attempts |-> [attempts EXCEPT ![ip] = [count |-> 1, resetTime |-> t + RateLimitWindow]]]
    ELSE IF attempts[ip].count > MaxLoginAttempts
    THEN [allowed |-> FALSE, attempts |-> attempts]
    ELSE [allowed |-> TRUE, attempts |-> [attempts EXCEPT ![ip].count = @ + 1]]

\* checkRateLimit(ip) at Date.now() = t: the answer and the Map afterwards
CheckRateLimit(attempts, ip, t) ==
    IF ~HasAttempts(attempts, ip) \/ t > attempts[ip].resetTime
    THEN [allowed |-> TRUE,
          attempts |-> [attempts EXCEPT ![ip] = [count |-> 1, resetTime |-> t + RateLimitWindow]]]
    ELSE IF attempts[ip].count >= MaxLoginAttempts
    THEN [allowed |-> FALSE, attempts |-> attempts]
    ELSE [allowed |-> TRUE, attempts |-> [attempts EXCEPT ![ip].count = @ + 1]]

\* resetRateLimit(ip): loginAttempts.delete(ip)
ResetRateLimit(attempts, ip) == [attempts EXCEPT ![ip] = NoAttempts]

LoginFrame ==
    UNCHANGED <<exportHook, backend, contractors, productivityData, lastOp, uploads>>

\* POST /api/auth/login from ip, up to the await
LoginRequest(ip, s, password) ==
    LET check == CheckRateLimit(loginAttempts, ip, now)
    IN  /\ BagCardinality(logins) < MaxPending
        /\ loginAttempts' = check.attempts
        /\ result' = Applied("checkRateLimit", [ip |-> ip, password |-> password], check.allowed)
        /\ IF check.allowed
           THEN /\ logins' = logins (+) SetToBag({LoginOf(ip, s, password)})
                /\ UNCHANGED response
           ELSE /\ response' = Reply("POST /api/auth/login", 429, "Too many login attempts", 0, <<>>)
                /\ UNCHANGED logins
        /\ fullWindows' =
              IF check.allowed /\ check.attempts[ip].count = MaxLoginAttempts
              THEN [fullWindows EXCEPT ![ip] = [resetTime |-> check.attempts[ip].resetTime,
                                                cleared |-> FALSE]]
              ELSE fullWindows
        /\ UNCHANGED <<now, isAdmin>>
        /\ LoginFrame

\* verifyPassword settles and the handler of the request runs to its end
VerifyPasswordSettles(login) ==
    /\ BagIn(login, logins)
    /\ logins' = logins (-) SetToBag({login})
    /\ IF login.password = "valid"
       THEN /\ loginAttempts' = ResetRateLimit(loginAttempts, login.ip)
            /\ isAdmin' = [isAdmin EXCEPT ![login.session] = TRUE]
            /\ response' = Reply("POST /api/auth/login", 200, "Login successful", 0, <<>>)
            /\ fullWindows' = IF fullWindows[login.ip].resetTime >= 0
                              THEN [fullWindows EXCEPT ![login.ip].cleared = TRUE]
                              ELSE fullWindows
       ELSE /\ response' = IF login.password = "invalid"
                           THEN Reply("POST /api/auth/login", 401, "Invalid password", 0, <<>>)
                           ELSE Reply("POST /api/auth/login", 500, "Login failed", 0, <<>>)
            /\ UNCHANGED <<loginAttempts, isAdmin, fullWindows>>
    /\ UNCHANGED <<now, result>>
    /\ LoginFrame

LoginTick ==
    /\ now < MaxLoginTicks * ClockStep
    /\ now' = now + ClockStep
    /\ UNCHANGED <<loginAttempts, logins, fullWindows, isAdmin, response, result>>
    /\ LoginFrame

\* ip1 sends every kind of password, ip2 only wrong ones
LoginRequests == { <<"ip1", password>> : password \in Passwords } \cup { <<"ip2", "invalid">> }

InitLogin == TextInit({<<>>})

NextLogin ==
    \/ \E request \in LoginRequests, s \in Sessions : LoginRequest(request[1], s, request[2])
    \/ \E request \in LoginRequests, s \in Sessions :
          VerifyPasswordSettles(LoginOf(request[1], s, request[2]))
    \/ LoginTick

SpecLogin == InitLogin /\ [][NextLogin]_vars

\* the IP has had its full quota counted in a window that has not reached its reset time
QuotaCounted(ip) == fullWindows[ip].resetTime >= 0 /\ now < fullWindows[ip].resetTime

\* the request is answered 429, no password is verified, no session is changed,
\* and the other IPs' entries are as they were
TurnedAway(ip) ==
    /\ response'.status = 429
    /\ logins' = logins
    /\ isAdmin' = isAdmin
    /\ \A other \in Ips \ {ip} : loginAttempts'[other] = loginAttempts[other]

\* an IP that is under its quota is let through to the password check, whatever
\* the other IPs have done
OthersUnaffected ==
    \A ip \in Ips, s \in Sessions, password \in Passwords :
        (loginAttempts[ip].count < MaxLoginAttempts /\ LoginRequest(ip, s, password))
        => /\ BagCardinality(logins') = BagCardinality(logins) + 1
           /\ \A other \in Ips \ {ip} : loginAttempts'[other] = loginAttempts[other]

\* C29 as stated: once 5 attempts of an IP have been counted in a window, every
\* further attempt from that IP before the window's reset time is answered 429
\* without a password check and without setting isAdmin, even with the right
\* password; attempts from other IPs are not affected.
C29_LockedUntilReset ==
    [][/\ \A ip \in Ips, s \in Sessions, password \in Passwords :
            (QuotaCounted(ip) /\ LoginRequest(ip, s, password)) => TurnedAway(ip)
       /\ OthersUnaffected]_vars

\* C29, with the case the code adds: the lock lasts until the window's reset time
\* or until a login from that IP succeeds, whichever comes first (a successful
\* login deletes the IP's entry).
C29_LockedUntilResetOrSuccess ==
    [][/\ \A ip \in Ips, s \in Sessions, password \in Passwords :
            (QuotaCounted(ip) /\ ~fullWindows[ip].cleared /\ LoginRequest(ip, s, password))
            => TurnedAway(ip)
       /\ OthersUnaffected]_vars

\* a request with the right password has just been turned away with 429
C29_Witness ==
    /\ result.op = "checkRateLimit"
    /\ result.input.password = "valid"
    /\ result.output = FALSE
    /\ response.status = 429
    /\ QuotaCounted(result.input.ip)
    /\ ~fullWindows[result.input.ip].cleared
    /\ loginAttempts[result.input.ip].count = MaxLoginAttempts
    /\ \A s \in Sessions : ~isAdmin[s]


(***************************************************************************)
(* Records and the roster under the API (Spec)                             *)
(***************************************************************************)
ContractorIdsOf(cs) == { c.id : c \in cs }

\* C30: from a store in which every productivity record's contractorId is the id of a
\* stored contractor, this stays true after any sequence of API requests: no route
\* stores a record for an id absent from the roster, and no route removes a
\* contractor or changes a contractor's id.
C30_RecordsKeepTheirContractor ==
    /\ []NoOrphans
    /\ [][/\ ContractorIdsOf(contractors) \subseteq ContractorIdsOf(contractors')
          /\ \A i \in 1..Len(productivityData') :
                productivityData'[i].val.contractorId \in ContractorIdsOf(contractors)]_vars

\* a contractor with a stored record has been archived through the API and is
\* still on the roster, next to a second contractor added later
C30_Witness ==
    /\ response.route = "DELETE /api/contractors/:id"
    /\ response.status = 200
    /\ Cardinality(ContractorIdsOf(contractors)) = 2
    /\ \E c \in contractors :
          /\ c.status = "archived"
          /\ \E i \in 1..Len(productivityData) : productivityData[i].val.contractorId = c.id

====
